---- MODULE Spec2Model ----
(***************************************************************************)
(* Model of the audio-to-text batch processor (src/audio_processor.py,     *)
(* src/audio_processor_client.py, src/config.py).                          *)
(*                                                                         *)
(* Several machines share the variables below:                             *)
(*   Spec            main() and process_calls_batch with the per-call      *)
(*                   pipeline process_single_call on the worker pool;      *)
(*   SpecFallback    one transcribe_audio: Validate, safe mode,            *)
(*                   SegmentSplit;                                         *)
(*   SpecClient      one process_single_call of AudioProcessorClient;      *)
(*   SpecClientBatch one process_calls_batch of AudioProcessorClient;      *)
(*   SpecFormat      one _format_transcript;                               *)
(*   SpecModelCache  the threads that use ModelCache;                      *)
(*   SpecConvert     one convert_audio_format;                             *)
(*   SpecPaths       the transcript paths built for two call records;      *)
(*   SpecInterrupt   Spec with a KeyboardInterrupt in the main thread.     *)
(* FairSpec, FairSpecFallback and FairSpecInterrupt add the fairness of    *)
(* the threads; SpecCleanup is the machine of Spec started from the disks  *)
(* and flags the cleanup reads.                                            *)
(* Positions in lists are 1-based here and 0-based in the source.         *)
(***************************************************************************)
EXTENDS Integers, Sequences, FiniteSets, TLC

\* ------------------------------------------------------------------ bounds
MaxCalls == 3
MaxId == 2
MaxPool == 2

\* ------------------------------------------------------------------ values
None == "None"

\* The transcripts transcribe_audio can hand back to the pipeline (formatted text).
Transcripts == {"t1", "t2"}

\* fecha_llamada of a call record: an ISO-8601 string, a datetime object (what
\* the MySQL driver returns), a string that is no ISO date, or None.
FechaKinds == {"iso", "datetime", "bad_str", "none"}

Ids == 1..MaxId

CallRecords(fechas) == [id : Ids, fecha_llamada : fechas]

\* Every list of at most n elements of S.
SeqUpTo(S, n) == UNION {[1..k -> S] : k \in 0..n}

VARIABLES
    calls,          \* calls_data: the input list of call records
    cfg,            \* Config: the configuration snapshot of the run
    bpc,            \* position of the main thread in process_calls_batch
    max_workers,    \* local max_workers of process_calls_batch
    chunk_idx,      \* chunk_idx of _process_calls_in_chunks (0-based offset)
    pool,           \* max_workers of the live ThreadPoolExecutor, 0 when none
    future,         \* per input position: state of its future
    results_dict,   \* results_dict: index -> result, as filled by as_completed
    all_results,    \* all_results of _process_calls_in_chunks
    results,        \* the list process_calls_batch returned
    pc,             \* per input position: position inside process_single_call
    result,         \* per input position: the result dict under construction
    fs,             \* the file system: audio files, transcripts, sidecars
    hist,           \* per input position: counters of what the call did
    fb,             \* one transcribe_audio: the fallback state machine
    cl,             \* one AudioProcessorClient.process_single_call
    exit_status,    \* main(): the exit code of the process, once it has exited
    fmt,            \* one _format_transcript: its locals and what it returned
    cb,             \* one AudioProcessorClient.process_calls_batch
    mc,             \* ModelCache and the threads that use it
    cv,             \* one convert_audio_format
    pt              \* two call records and the paths built for them

vars == <<calls, cfg, bpc, max_workers, chunk_idx, pool, future, results_dict,
          all_results, results, pc, result, fs, hist, fb, cl, exit_status,
          fmt, cb, mc, cv, pt>>

batchVars == <<bpc, max_workers, chunk_idx, pool, results_dict, all_results, results,
               exit_status>>

N == Len(calls)

\* ------------------------------------------------------- paths and the disk

\* audio_dir / text_dir of a record: .../<year>/<month>/<day>/call_<id>. The
\* records of one run share the date, so the call id names the directory.
CallDir(rec) == rec.id

Absent == "absent"

\* An empty disk: no audio file, no transcript, no metadata sidecar, no file
\* under /tmp whose name holds a call id, and nothing that refuses deletion.
EmptyFs == [audio  |-> [d \in Ids |-> Absent],
            text   |-> [d \in Ids |-> Absent],
            meta   |-> [d \in Ids |-> FALSE],
            tmp    |-> [d \in Ids |-> FALSE],
            locked |-> {}]

\* shutil.rmtree(audio_dir): the downloaded audio goes with its directory,
\* unless the deletion raises (the error is logged by _cleanup_directory).
RemoveAudioDir(f, d) ==
    IF "audio" \in f.locked THEN f ELSE [f EXCEPT !.audio[d] = Absent]

\* shutil.rmtree(text_dir): the transcript and the sidecar go with it.
RemoveTextDir(f, d) ==
    IF "text" \in f.locked THEN f
    ELSE [f EXCEPT !.text[d] = Absent, !.meta[d] = FALSE]

\* _cleanup_temp_files: the files under /tmp whose name holds the call id are
\* removed, each os.remove guarded on its own.
SweepTempFiles(f, d) ==
    IF "temp" \in f.locked THEN f ELSE [f EXCEPT !.tmp[d] = FALSE]

\* ------------------------------------------------------ cleanup_call_files

\* datetime.fromisoformat(fecha_llamada.replace('Z', '+00:00')) in
\* cleanup_call_files: "ok" for an ISO string, "skip" for a falsy value (the
\* early return), "raise" for a datetime object (datetime.replace takes no
\* positional strings) and for a string that is no ISO date.
CleanupDateOutcome(fecha) ==
    CASE fecha = "iso"      -> "ok"
      [] fecha = "none"     -> "skip"
      [] fecha = "datetime" -> "raise"
      [] fecha = "bad_str"  -> "raise"

\* Whether cleanup_call_files gets past its AUTO_CLEANUP gate.
CleanupEnabledAlways(c) == TRUE

CleanupEnabled(c) == c.AUTO_CLEANUP

\* The disk after cleanup_call_files(call_data): nothing when the date cannot
\* be read, else the audio directory (CLEANUP_AUDIO_FILES) and the transcript
\* directory (not KEEP_TRANSCRIPTS) are removed.
CleanupCallFilesDroppingText(f, rec, c) ==
    IF ~CleanupEnabled(c) THEN f
    ELSE RemoveTextDir(RemoveAudioDir(f, CallDir(rec)), CallDir(rec))

CleanupCallFiles(f, rec, c) ==
    IF ~CleanupEnabled(c) THEN f
    ELSE IF CleanupDateOutcome(rec.fecha_llamada) # "ok" THEN f
    ELSE LET d  == CallDir(rec)
             f1 == IF c.CLEANUP_AUDIO_FILES THEN RemoveAudioDir(f, d) ELSE f
             f2 == IF c.CLEANUP_TEMP_FILES THEN SweepTempFiles(f1, d) ELSE f1
         IN  IF ~c.KEEP_TRANSCRIPTS THEN RemoveTextDir(f2, d) ELSE f2

\* The sub-steps one run of cleanup_call_files gets to: none behind the
\* AUTO_CLEANUP gate, none when the date is falsy (the early return) or cannot
\* be read (the outer except), else the delay and the enabled deletions.
CleanupSteps(rec, c) ==
    IF ~CleanupEnabled(c) THEN {}
    ELSE IF CleanupDateOutcome(rec.fecha_llamada) # "ok" THEN {}
    ELSE (IF c.CLEANUP_DELAY > 0 THEN {"delay"} ELSE {})
         \cup (IF c.CLEANUP_AUDIO_FILES THEN {"audio"} ELSE {})
         \cup (IF c.CLEANUP_TEMP_FILES THEN {"temp"} ELSE {})
         \cup (IF ~c.KEEP_TRANSCRIPTS THEN {"text"} ELSE {})

\* _transcribe_with_safe_mode, lines 1064-1065: the temporary WAV of a
\* transcription, /tmp/tmp<8 random characters>.wav.  None is made when the
\* validation rejects the audio; else the random name holds the digits of
\* call id "match", or of no call id of the batch (0).
TempWavs ==
    {[wav |-> "none", match |-> 0]} \cup [wav : {"live"}, match : 0..MaxId]

\* _cleanup_temp_files run for rec: glob('/tmp/*<call_id>*') lists every file
\* of /tmp whose name holds the id, the live WAVs of other calls among them,
\* and os.remove deletes them.
SweepWavs(h, f, rec, c) ==
    IF "temp" \in CleanupSteps(rec, c) /\ "temp" \notin f.locked
    THEN [j \in DOMAIN h |->
            IF h[j].wav = "live" /\ h[j].wav_match = rec.id
            THEN [h[j] EXCEPT !.wav = "swept"] ELSE h[j]]
    ELSE h

\* ------------------------------------------------------ process_single_call

\* result = {'call_id': call_id, 'success': False, ...}
NewResult(rec) ==
    [call_id |-> rec.id, success |-> FALSE, audio_path |-> None,
     transcript_path |-> None, transcript |-> None, error |-> None]

\* The date handling of process_single_call: a str goes through fromisoformat,
\* a datetime is taken as it is, anything else raises ValueError.
DateAccepted(fecha) == fecha \in {"iso", "datetime"}

\* What a call did so far: its downloads, transcription attempts and runs of
\* cleanup_call_files past the AUTO_CLEANUP gate; the failure it met, if any;
\* whether an exception left process_single_call; whether as_completed
\* yielded it before a call of a lower index; the cleanup sub-steps reached;
\* whether the metadata sidecar could not be written; and the temporary WAV
\* of its transcription with the call id its name holds, 0 for none.
NoHist == [downloads |-> 0, transcriptions |-> 0, cleanups |-> 0,
           failure |-> None, escaped |-> FALSE, overtook |-> FALSE,
           swept |-> {}, meta_failed |-> FALSE,
           wav |-> "none", wav_match |-> 0, in_flight |-> FALSE]

Running(i) == future[i] = "running"

\* What the except clause of process_single_call does with an exception:
\* "caught" (result['error'] = str(e), cleanup, return result).
OnException == "caught"

\* Lines 1482-1483: open(text_path, 'r', encoding='utf-8') and f.read() of
\* the transcript found on disk: its text, or an OSError / UnicodeDecodeError.
ReadOutcomes == {"text", "raises"}

ReadRaises(r) == r = "raises"

\* Lines 1430-1484: build the paths; a bad date raises into the except clause;
\* an existing transcript is returned without download or transcription:
\* success and transcript_path are assigned (1480-1481) before the file is
\* read (1482-1483), and a read that raises goes to the except clause.
PSC_Begin(i) ==
    /\ Running(i) /\ pc[i] = "begin"
    /\ LET rec == calls[i]
           d   == CallDir(rec)
       IN  IF ~DateAccepted(rec.fecha_llamada)
           THEN /\ pc' = [pc EXCEPT ![i] = "except"]
                /\ hist' = [hist EXCEPT ![i].failure = "exception"]
                /\ UNCHANGED <<result, future>>
           ELSE IF fs.text[d] # Absent
           THEN \E r \in ReadOutcomes :
                  IF ReadRaises(r)
                  THEN /\ result' = [result EXCEPT ![i].success = TRUE,
                                                   ![i].transcript_path = d]
                       /\ pc' = [pc EXCEPT ![i] = "except"]
                       /\ hist' = [hist EXCEPT ![i].failure = "exception"]
                       /\ UNCHANGED future
                  ELSE /\ result' = [result EXCEPT ![i].success = TRUE,
                                                   ![i].transcript_path = d,
                                                   ![i].transcript = fs.text[d]]
                       /\ pc' = [pc EXCEPT ![i] = "return"]
                       /\ future' = [future EXCEPT ![i] = "done"]
                       /\ UNCHANGED hist
           ELSE /\ pc' = [pc EXCEPT ![i] = "download"]
                /\ UNCHANGED <<result, future, hist>>
    /\ UNCHANGED <<cb, mc, cv, fmt, fb, cl, pt, calls, cfg, batchVars, fs>>

\* Lines 1515-1522: the except clause: the error string, then cleanup.
PSC_Except(i) ==
    /\ Running(i) /\ pc[i] = "except"
    /\ IF OnException = "caught"
       THEN /\ result' = [result EXCEPT ![i].error =
                               IF DateAccepted(calls[i].fecha_llamada)
                               THEN "str(e)"
                               ELSE "Formato de fecha no valido"]
            /\ fs' = CleanupCallFiles(fs, calls[i], cfg)
            /\ hist' = [SweepWavs(hist, fs, calls[i], cfg) EXCEPT
                           ![i].cleanups = @ + (IF CleanupEnabled(cfg) THEN 1 ELSE 0),
                           ![i].swept = CleanupSteps(calls[i], cfg)]
       ELSE /\ hist' = [hist EXCEPT ![i].escaped = TRUE]
            /\ UNCHANGED <<result, fs>>
    /\ pc' = [pc EXCEPT ![i] = "return"]
    /\ future' = [future EXCEPT ![i] = "done"]
    /\ UNCHANGED <<cb, mc, cv, fmt, fb, cl, pt, calls, cfg, batchVars>>

\* download_audio (lines 444-476): True with the whole file written; False
\* with nothing written (connection error, non-2xx) or with the bytes received
\* so far left under the destination name (an error in the byte stream).
DownloadOutcomes == {"ok", "fail_nothing", "fail_midstream"}

AudioAfterDownload(before, outcome) ==
    CASE outcome = "ok"             -> "complete"
      [] outcome = "fail_nothing"   -> before
      [] outcome = "fail_midstream" -> "partial"

\* Lines 1486-1491.
PSC_Download(i) ==
    /\ Running(i) /\ pc[i] = "download"
    /\ \E o \in DownloadOutcomes :
          LET d == CallDir(calls[i]) IN
          /\ fs' = [fs EXCEPT !.audio[d] = AudioAfterDownload(@, o)]
          /\ hist' = [hist EXCEPT ![i].downloads = @ + 1,
                                   ![i].failure = IF o = "ok" THEN @ ELSE "download"]
          /\ IF o = "ok"
             THEN /\ result' = [result EXCEPT ![i].audio_path = d]
                  /\ pc' = [pc EXCEPT ![i] = "transcribe"]
                  /\ UNCHANGED future
             ELSE /\ result' = [result EXCEPT ![i].error = "Error descargando audio"]
                  /\ pc' = [pc EXCEPT ![i] = "return"]
                  /\ future' = [future EXCEPT ![i] = "done"]
    /\ UNCHANGED <<cb, mc, cv, fmt, fb, cl, pt, calls, cfg, batchVars>>

\* Line 1494 and transcribe_audio lines 832-840: a missing file is None at
\* once; otherwise the fallback machine starts on the file.
PSC_TranscribeBegin(i) ==
    /\ Running(i) /\ pc[i] = "transcribe"
    /\ IF fs.audio[CallDir(calls[i])] = Absent
       THEN /\ result' = [result EXCEPT ![i].error = "Error transcribiendo audio"]
            /\ pc' = [pc EXCEPT ![i] = "return"]
            /\ future' = [future EXCEPT ![i] = "done"]
            /\ hist' = [hist EXCEPT ![i].failure = "transcription"]
       ELSE /\ pc' = [pc EXCEPT ![i] = "transcribing"]
            /\ \E w \in TempWavs :
                  hist' = [hist EXCEPT ![i].transcriptions = @ + 1,
                                       ![i].wav = w.wav,
                                       ![i].wav_match = w.match]
            /\ UNCHANGED <<result, future>>
    /\ UNCHANGED <<cb, mc, cv, fmt, fb, cl, pt, calls, cfg, batchVars, fs>>

\* Lines 1494-1499: transcribe_audio returns a transcript or None; the
\* finally of safe mode (lines 1153-1155) has unlinked the temporary WAV if
\* it was still there.
PSC_TranscribeEnd(i) ==
    /\ Running(i) /\ pc[i] = "transcribing"
    /\ \E t \in Transcripts \cup {None} :
          IF t = None
          THEN /\ result' = [result EXCEPT ![i].error = "Error transcribiendo audio"]
               /\ pc' = [pc EXCEPT ![i] = "return"]
               /\ future' = [future EXCEPT ![i] = "done"]
               /\ hist' = [hist EXCEPT ![i].failure = "transcription",
                                        ![i].wav = "none", ![i].wav_match = 0]
          ELSE /\ result' = [result EXCEPT ![i].transcript = t]
               /\ pc' = [pc EXCEPT ![i] = "save"]
               /\ hist' = [hist EXCEPT ![i].wav = "none", ![i].wav_match = 0]
               /\ UNCHANGED future
    /\ UNCHANGED <<cb, mc, cv, fmt, fb, cl, pt, calls, cfg, batchVars, fs>>

\* Lines 1501-1504 and save_transcript (1380-1405).
PSC_Save(i) ==
    /\ Running(i) /\ pc[i] = "save"
    /\ \E ok \in BOOLEAN :
          IF ok
          THEN /\ fs' = [fs EXCEPT !.text[CallDir(calls[i])] = result[i].transcript]
               /\ pc' = [pc EXCEPT ![i] = "saved"]
               /\ UNCHANGED <<result, future, hist>>
          ELSE /\ result' = [result EXCEPT ![i].error = "Error guardando transcripcion"]
               /\ pc' = [pc EXCEPT ![i] = "return"]
               /\ future' = [future EXCEPT ![i] = "done"]
               /\ hist' = [hist EXCEPT ![i].failure = "persistence"]
               /\ UNCHANGED fs
    /\ UNCHANGED <<cb, mc, cv, fmt, fb, cl, pt, calls, cfg, batchVars>>

\* Lines 1506-1513: the metadata sidecar (its failure is logged and dropped),
\* cleanup_call_files(success=True), then success.
PSC_Finish(i) ==
    /\ Running(i) /\ pc[i] = "saved"
    /\ \E metaOk \in BOOLEAN :
          LET d  == CallDir(calls[i])
              written == metaOk /\ fs.text[d] # Absent
              f1 == IF written THEN [fs EXCEPT !.meta[d] = TRUE] ELSE fs
          IN  /\ fs' = CleanupCallFiles(f1, calls[i], cfg)
              /\ hist' = [SweepWavs(hist, fs, calls[i], cfg) EXCEPT
                            ![i].cleanups = @ + (IF CleanupEnabled(cfg) THEN 1 ELSE 0),
                            ![i].swept = CleanupSteps(calls[i], cfg),
                            ![i].meta_failed = ~written]
    /\ result' = [result EXCEPT ![i].transcript_path = CallDir(calls[i]),
                                ![i].success = TRUE]
    /\ pc' = [pc EXCEPT ![i] = "return"]
    /\ future' = [future EXCEPT ![i] = "done"]
    /\ UNCHANGED <<cb, mc, cv, fmt, fb, cl, pt, calls, cfg, batchVars>>

process_single_call(i) ==
    \/ PSC_Begin(i)
    \/ PSC_Except(i)
    \/ PSC_Download(i)
    \/ PSC_TranscribeBegin(i)
    \/ PSC_TranscribeEnd(i)
    \/ PSC_Save(i)
    \/ PSC_Finish(i)

\* ------------------------------------------------------ process_calls_batch

Min(a, b) == IF a <= b THEN a ELSE b

\* Lines 1576-1583: the worker count of the batch.
MaxWorkers(c, n) ==
    IF c.CPU_OPTIMIZED THEN Min(c.MAX_CPU_WORKERS, n)
    ELSE c.MAX_CONCURRENT_TRANSCRIPTIONS

\* Line 1593: whether the batch goes through _process_calls_in_chunks.
UseChunks(c, n) == c.CPU_OPTIMIZED /\ n > c.CHUNK_SIZE

\* ThreadPoolExecutor(max_workers=w) raises ValueError unless w > 0.
ExecutorRaises(w) == w <= 0

\* The except clause of the as_completed loop (lines 1625-1631, 1735-1741)
\* and the fallback of the rebuild loop (1637-1643, 1747-1752).
Placeholder(rec, msg) ==
    [call_id |-> rec.id, success |-> FALSE, audio_path |-> "missing",
     transcript_path |-> "missing", transcript |-> "missing", error |-> msg]

EmptyDict == [k \in {} |-> None]

\* results_dict[index] = result
StoreResultByCompletion(dict, index, r) ==
    dict @@ ((Cardinality(DOMAIN dict) + 1) :> r)

StoreResult(dict, index, r) == (index :> r) @@ dict

\* Lines 1634-1643 and 1744-1752: the list rebuilt in index order, a
\* placeholder for an index the dictionary lacks.
Rebuild(data, dict, msg) ==
    [k \in 1..Len(data) |->
        IF k \in DOMAIN dict THEN dict[k] ELSE Placeholder(data[k], msg)]

\* The positions of the input list the live executor was given: all of them on
\* the direct path, those of the current chunk on the chunked path.
Submitted ==
    IF bpc = "collect" THEN 1..N
    ELSE IF bpc = "chunk_collect"
    THEN (chunk_idx + 1)..Min(chunk_idx + cfg.CHUNK_SIZE, N)
    ELSE {}

LocalIndexGlobal(i) == i

\* enumerate(chunk_data): the index of input position i inside its chunk.
LocalIndex(i) == IF bpc = "chunk_collect" THEN i - chunk_idx ELSE i

\* Lines 1567-1608: the worker count, the choice of path, and on the direct
\* path the executor with every task submitted.
Batch_Start ==
    /\ bpc = "call"
    /\ max_workers' = MaxWorkers(cfg, N)
    /\ IF UseChunks(cfg, N)
       THEN /\ bpc' = "chunk_loop"
            /\ UNCHANGED <<pool, future>>
       ELSE IF ExecutorRaises(MaxWorkers(cfg, N))
       THEN /\ bpc' = "raised"
            /\ UNCHANGED <<pool, future>>
       ELSE /\ bpc' = "collect"
            /\ pool' = MaxWorkers(cfg, N)
            /\ future' = [i \in 1..N |-> "pending"]
    /\ UNCHANGED <<cb, mc, cv, fmt, fb, cl, pt, calls, cfg, exit_status,
                   chunk_idx, results_dict, all_results, results,
                   pc, result, fs, hist>>

\* The calls whose per-call pipeline is executing on a worker.
Executing == {j \in 1..N : future[j] = "running"}

WorkerFreeAlways == TRUE

\* ThreadPoolExecutor(max_workers=...), lines 1603 and 1707: a task is started
\* only on a worker that is not running another one.
WorkerFree == Cardinality(Executing) < pool

\* A worker thread of the executor takes the oldest queued task.
Worker_Take(i) ==
    /\ future[i] = "pending"
    /\ \A j \in 1..(i - 1) : future[j] # "pending"
    /\ WorkerFree
    /\ future' = [future EXCEPT ![i] = "running"]
    /\ UNCHANGED <<cb, mc, cv, fmt, fb, cl, pt, calls, cfg, batchVars, pc, result, fs, hist>>

\* Lines 1614-1631 and 1724-1741: as_completed yields a finished future; its
\* result, or a placeholder when the task raised, is stored under its index.
Batch_Collect(i) ==
    /\ i \in Submitted
    /\ future[i] = "done"
    /\ future' = [future EXCEPT ![i] = "collected"]
    /\ results_dict' =
          StoreResult(results_dict, LocalIndex(i),
                      IF hist[i].escaped
                      THEN Placeholder(calls[i], "exception")
                      ELSE result[i])
    /\ hist' = [hist EXCEPT ![i].overtook =
                    \E j \in Submitted : j < i /\ future[j] # "collected"]
    /\ UNCHANGED <<cb, mc, cv, fmt, fb, cl, pt, calls, cfg, exit_status,
                   bpc, max_workers, chunk_idx, pool, all_results,
                   results, pc, result, fs>>

\* Lines 1633-1646: every future was yielded; the list is rebuilt and returned.
Batch_Return ==
    /\ bpc = "collect"
    /\ \A i \in 1..N : future[i] = "collected"
    /\ results' = Rebuild(calls, results_dict, "Resultado no encontrado")
    /\ bpc' = "returned"
    /\ pool' = 0
    /\ UNCHANGED <<cb, mc, cv, fmt, fb, cl, pt, calls, cfg, exit_status,
                   max_workers, chunk_idx, future, results_dict,
                   all_results, pc, result, fs, hist>>

\* range(0, len(calls_data), chunk_size): the offset of the chunk after idx.
NextChunkSkipping(idx, size) == idx + size + 1

NextChunk(idx, size) == idx + size

\* chunk = calls_data[chunk_idx:chunk_idx + chunk_size], as positions.
ChunkOf(idx) == SubSeq(calls, idx + 1, Min(idx + cfg.CHUNK_SIZE, N))

\* Lines 1676-1687 and 1707-1716: the next chunk gets its own executor of
\* min(max_workers, len(chunk)) workers; lines 1693-1695 when none is left.
Chunk_Start ==
    /\ bpc = "chunk_loop"
    /\ IF chunk_idx >= N
       THEN /\ results' = all_results
            /\ bpc' = "returned"
            /\ UNCHANGED <<pool, future, results_dict>>
       ELSE IF ExecutorRaises(Min(max_workers, Len(ChunkOf(chunk_idx))))
       THEN /\ bpc' = "raised"
            /\ UNCHANGED <<pool, future, results_dict, results>>
       ELSE /\ bpc' = "chunk_collect"
            /\ pool' = Min(max_workers, Len(ChunkOf(chunk_idx)))
            /\ future' = [i \in 1..N |->
                            IF i \in (chunk_idx + 1)..Min(chunk_idx + cfg.CHUNK_SIZE, N)
                            THEN "pending" ELSE future[i]]
            /\ results_dict' = EmptyDict
            /\ UNCHANGED results
    /\ UNCHANGED <<cb, mc, cv, fmt, fb, cl, pt, calls, cfg, exit_status,
                   max_workers, chunk_idx, all_results, pc, result,
                   fs, hist>>

\* The as_completed loop of _process_chunk has ended and the executor's with
\* block is left: every future of the chunk was yielded.
ChunkDrainedEarly == \E i \in Submitted : future[i] = "collected"

ChunkDrained == \A i \in Submitted : future[i] = "collected"

\* Lines 1743-1754 and 1688: the chunk's list is rebuilt and appended.
Chunk_Return ==
    /\ bpc = "chunk_collect"
    /\ ChunkDrained
    /\ all_results' = all_results \o
                        Rebuild(ChunkOf(chunk_idx), results_dict,
                                "Resultado no encontrado en chunk")
    /\ chunk_idx' = NextChunk(chunk_idx, cfg.CHUNK_SIZE)
    /\ bpc' = "chunk_loop"
    /\ pool' = 0
    /\ UNCHANGED <<cb, mc, cv, fmt, fb, cl, pt, calls, cfg, exit_status,
                   max_workers, future, results_dict, results, pc,
                   result, fs, hist>>

\* ------------------------------------------------------------------- main()

\* exit_status before the process has exited.
NotExited == [code |-> -1, reported |-> FALSE]

\* src/main.py 259-266: the exit code computed from the result list.
ExitCode(rs) ==
    LET successful == Cardinality({k \in 1..Len(rs) : rs[k].success}) IN
    IF successful = Len(rs) THEN 0
    ELSE IF successful > 0 THEN 1
    ELSE 2

\* src/main.py 191-204 and 238-279: main() calls process_calls_batch on a
\* non-empty list only, then writes the report and the result log under
\* /app/logs and exits with the code of the result list.  An exception of the
\* batch or of the report and log writing reaches "except Exception", which
\* exits with 1.
Main_Exit ==
    /\ N > 0
    /\ bpc \in {"returned", "raised"}
    /\ exit_status = NotExited
    /\ \E reported \in BOOLEAN :
          /\ (bpc = "raised") => ~reported
          /\ exit_status' = [code |-> IF reported THEN ExitCode(results) ELSE 1,
                             reported |-> reported]
    /\ UNCHANGED <<cb, mc, cv, fmt, fb, cl, pt, calls, cfg, bpc, max_workers, chunk_idx, pool,
                   results_dict, all_results, results, future, pc, result, fs, hist>>

\* ------------------------------------------------------------ configuration

\* MAX_CONCURRENT_TRANSCRIPTIONS, the default of config.py.
DefaultConcurrentTranscriptions == 2

\* The configurations of a batch run: the cleanup flags at their defaults.
\* Without CPU_OPTIMIZED the batch reads neither MAX_CPU_WORKERS nor
\* CHUNK_SIZE, so one value of each stands for all.
AllBatchConfigs ==
    [CPU_OPTIMIZED : BOOLEAN,
     MAX_CPU_WORKERS : 1..MaxPool,
     MAX_CONCURRENT_TRANSCRIPTIONS : {DefaultConcurrentTranscriptions},
     CHUNK_SIZE : 1..MaxPool,
     AUTO_CLEANUP : {TRUE},
     CLEANUP_AUDIO_FILES : {TRUE},
     CLEANUP_TEMP_FILES : {TRUE},
     KEEP_TRANSCRIPTS : {TRUE},
     CLEANUP_DELAY : {0}]

BatchConfigs ==
    {c \in AllBatchConfigs :
        c.CPU_OPTIMIZED \/ (c.MAX_CPU_WORKERS = 1 /\ c.CHUNK_SIZE = 1)}

\* The state before process_calls_batch(calls_data) on an empty disk.
Init ==
    /\ calls \in SeqUpTo(CallRecords({"iso", "none"}), MaxCalls)
    /\ cfg \in BatchConfigs
    /\ bpc = "call"
    /\ max_workers = 0
    /\ chunk_idx = 0
    /\ pool = 0
    /\ future = [i \in 1..Len(calls) |-> "unsubmitted"]
    /\ results_dict = EmptyDict
    /\ all_results = <<>>
    /\ results = <<>>
    /\ exit_status = NotExited
    /\ pt = None
    /\ cb = None
    /\ mc = None
    /\ cv = None
    /\ fmt = None
    /\ pc = [i \in 1..Len(calls) |-> "begin"]
    /\ result = [i \in 1..Len(calls) |-> NewResult(calls[i])]
    /\ fs = EmptyFs
    /\ hist = [i \in 1..Len(calls) |-> NoHist]
    /\ fb = None
    /\ cl = None

Next ==
    \/ Batch_Start
    \/ \E i \in 1..N : Worker_Take(i)
    \/ \E i \in 1..N : process_single_call(i)
    \/ \E i \in 1..N : Batch_Collect(i)
    \/ Batch_Return
    \/ Chunk_Start
    \/ Chunk_Return
    \/ Main_Exit

Spec == Init /\ [][Next]_vars

\* The worker threads and the main thread are operating-system threads and
\* every step of a call returns: a step that can be taken is taken.
FairSpec == Init /\ [][Next]_vars /\ WF_vars(Next)

\* ------------------------------------------------------------------ claims

Returned == bpc = "returned"

\* C1: for a non-empty input of N records process_calls_batch returns exactly
\* N results and the i-th result carries the id of the i-th record, on the
\* direct and on the chunked path, whatever order the workers finish in.
C1_OrderPreserved ==
    (Returned /\ N > 0) =>
        /\ Len(results) = N
        /\ \A i \in 1..N : results[i].call_id = calls[i].id

\* A full batch of records with differing ids has returned through the
\* chunked path, a later call having been yielded before an earlier one.
C1_Witness ==
    /\ Returned /\ N = MaxCalls
    /\ UseChunks(cfg, N)
    /\ calls[1].id # calls[2].id
    /\ \E i \in 1..N : hist[i].overtook

\* The failures a call can meet on its way: the download, transcribe_audio
\* returning None (validation, conversion, engine), save_transcript, and an
\* exception raised inside process_single_call.
Failures == {"download", "transcription", "persistence", "exception"}

\* C2: no exception leaves process_single_call; a call that met a failure
\* returns success=false with an error string; and a step of one call never
\* changes the result of another call.
C2_ErrorsContained ==
    /\ [](\A i \in 1..N :
            /\ ~hist[i].escaped
            /\ (pc[i] = "return" /\ hist[i].failure \in Failures) =>
                   (~result[i].success /\ result[i].error # None))
    /\ [][\A i, j \in 1..N :
            (i # j /\ pc'[i] # pc[i]) => result'[j] = result[j]]_vars

\* C3: process_calls_batch never raises, whatever the input list (the empty
\* one included) and the configuration.
C3_NeverRaises == bpc # "raised"

Terminated ==
    IF N = 0 THEN bpc \in {"returned", "raised"}
    ELSE /\ Returned
         /\ Len(results) = N
         /\ \A i \in 1..N : pc[i] = "return" /\ future[i] = "collected"

\* C4: with every step of a call returning, every record of the batch is
\* dispatched and gets its terminal result, and the batch ends, whichever
\* calls fail.
C4_EveryCallFinishes == <>Terminated

\* A batch has ended in which the first call failed and the last succeeded.
C4_Witness ==
    /\ Terminated /\ N = MaxCalls
    /\ ~results[1].success
    /\ results[N].success

\* C5: with AUTO_CLEANUP enabled, cleanup_call_files has run exactly once for
\* every call that process_single_call returned, whatever its outcome.
C5_CleanupExactlyOnce ==
    \A i \in 1..N :
        (pc[i] = "return" /\ cfg.AUTO_CLEANUP) => hist[i].cleanups = 1

\* --------------------------------------------------------- transcribe_audio

MaxWindows == 3
MaxTextLen == 2

\* segment_length_ms = 30 * 1000
SegmentLengthMs == 30000

\* min_duration_ms of _validate_audio_segment
MinSegmentMs == 100

\* duration < 0.1 in _validate_audio_file, in milliseconds
MinAudioMs == 100

\* Text as the engine returns it: a string of characters, " " being white space.
Chars == {" ", "a"}

RawTexts == SeqUpTo(Chars, MaxTextLen)

RECURSIVE LStrip(_)
LStrip(t) == IF t # <<>> /\ Head(t) = " " THEN LStrip(Tail(t)) ELSE t

RECURSIVE RStrip(_)
RStrip(t) ==
    IF t # <<>> /\ t[Len(t)] = " " THEN RStrip(SubSeq(t, 1, Len(t) - 1)) ELSE t

\* str.strip()
Strip(t) == RStrip(LStrip(t))

RECURSIVE JoinSpace(_)
\* ' '.join(transcripts)
JoinSpace(ts) ==
    IF ts = <<>> THEN <<>>
    ELSE IF Len(ts) = 1 THEN ts[1]
    ELSE ts[1] \o <<" ">> \o JoinSpace(Tail(ts))

\* The lengths of audio the machine is run on: up to MaxWindows windows, the
\* last one empty, shorter than the minimum, of the minimum or full.
DurationsMs ==
    {k * SegmentLengthMs + r :
        k \in 0..(MaxWindows - 1),
        r \in {0, MinSegmentMs - 1, MinSegmentMs, SegmentLengthMs}}

\* The audio file handed to transcribe_audio: whether it exists, its size
\* (zero, under 1 KB, larger), whether pydub can read it, and its length.
AudioFiles ==
    {a \in [exists : BOOLEAN, size : {"zero", "small", "normal"},
            probe : {"ok", "raises"}, duration_ms : DurationsMs] :
        /\ (~a.exists => (a.size = "zero" /\ a.probe = "raises" /\ a.duration_ms = 0))
        /\ (a.size = "zero" => (a.probe = "raises" /\ a.duration_ms = 0))}

\* _validate_audio_file: an empty file is rejected; a file pydub cannot read
\* is let through; a file shorter than 100 ms is rejected.
ValidateAudioFileLenient(a) == a.exists

ValidateAudioFile(a) ==
    IF ~a.exists THEN FALSE
    ELSE IF a.size = "zero" THEN FALSE
    ELSE IF a.probe = "raises" THEN TRUE
    ELSE a.duration_ms >= MinAudioMs

\* range(0, len(audio), segment_length_ms): the number of windows.
NumWindows(len) == (len + SegmentLengthMs - 1) \div SegmentLengthMs

\* len(audio[i:i + segment_length_ms]) of the j-th window.
WindowLen(len, j) == Min(j * SegmentLengthMs, len) - (j - 1) * SegmentLengthMs

\* _validate_audio_segment: at least 100 ms and not below -60 dBFS.
ValidateAudioSegment(wlen, silent) ==
    IF wlen < MinSegmentMs THEN FALSE
    ELSE IF silent THEN FALSE
    ELSE TRUE

\* What model.transcribe hands back: a result (its text, and its segments
\* absent, present or not in the shape the formatter reads), a RuntimeError
\* whose message names a tensor/reshape problem, another RuntimeError, or
\* another exception.
EngineResults ==
    [kind : {"ok"}, text : RawTexts, segments : {"none", "some", "malformed"}]
    \cup [kind : {"shape", "runtime_other", "exception"}, text : {<<>>},
          segments : {"none"}]

NoEngine == [kind |-> "none", text |-> <<>>, segments |-> "none"]

NoTranscript == [layout |-> "none", text |-> <<>>]

\* _format_transcript: the banner, the body in the segmented or the paragraph
\* layout and the footer; the stripped raw text when formatting raises.
FormatTranscript(r) ==
    IF r.segments = "malformed" THEN [layout |-> "raw", text |-> Strip(r.text)]
    ELSE IF r.segments = "some" THEN [layout |-> "segmented", text |-> Strip(r.text)]
    ELSE [layout |-> "paragraph", text |-> Strip(r.text)]

\* The truth value of a transcript string: the two layouts always carry their
\* banner and footer lines; raw or joined text is true when it is not empty.
IsTruthy(t) ==
    CASE t.layout \in {"segmented", "paragraph"} -> TRUE
      [] t.layout \in {"raw", "joined"}          -> t.text # <<>>
      [] OTHER                                   -> FALSE

\* _transcribe_with_fallbacks: the strategy tried after validation.
FirstStrategyAggressive == "aggressive_conversion"

FirstStrategy == "safe_mode"

\* The except RuntimeError clauses: a tensor/reshape error goes to
\* _transcribe_by_segments in safe mode, and to safe mode in the strategies
\* that nothing calls (aggressive conversion, pydub, ultra basic, direct).
OnShapeErrorRetry(strategy) == "safe_mode"

OnShapeError(strategy) ==
    IF strategy = "safe_mode" THEN "SegmentSplit" ELSE "safe_mode"

\* subprocess.run(ffmpeg ..., timeout=120): exit code 0, a nonzero exit code,
\* TimeoutExpired, or exit code 0 with an empty output file.
ConvertOutcomes == {"ok", "nonzero", "timeout", "empty"}

IsShapeErrorAnyRuntime(kind) == kind \in {"shape", "runtime_other"}

\* Lines 1131-1133 and 1142-1145: a RuntimeError is a shape error when its
\* message holds "reshape", "tensor" or "0 elements".
IsShapeError(kind) == kind = "shape"

FailThenRetry(f, why) ==
    [f EXCEPT !.state = "Strategy", !.reason = why, !.temp = FALSE]

\* return None out of the strategy, the temporary WAV unlinked by finally.
Fail(f, why) ==
    [f EXCEPT !.state = "Fail", !.reason = why, !.temp = FALSE,
              !.output = NoTranscript]

\* transcribe_audio lines 832-840: a missing file is None.
TA_Start ==
    /\ fb.state = "Start"
    /\ fb' = IF fb.audio.exists THEN [fb EXCEPT !.state = "Validate"]
             ELSE Fail(fb, "missing")
    /\ UNCHANGED <<cb, mc, cv, fmt, cl, pt, calls, cfg, batchVars, future, pc, result, fs, hist>>

\* _transcribe_with_fallbacks lines 907-919: validation, then the strategy.
TA_Validate ==
    /\ fb.state = "Validate"
    /\ fb' = IF ValidateAudioFile(fb.audio)
             THEN [fb EXCEPT !.state = "Strategy", !.strategy = FirstStrategy,
                             !.tried = Append(@, FirstStrategy)]
             ELSE Fail(fb, "validation")
    /\ UNCHANGED <<cb, mc, cv, fmt, cl, pt, calls, cfg, batchVars, future, pc, result, fs, hist>>

\* Lines 1064-1088: the temporary WAV and the ffmpeg conversion.
Strategy_Convert ==
    /\ fb.state = "Strategy"
    /\ \E o \in ConvertOutcomes :
          LET f == [fb EXCEPT !.temp = TRUE, !.ffmpeg_calls = @ + 1] IN
          fb' = IF o = "ok" THEN [f EXCEPT !.state = "Engine"]
                ELSE Fail(f, "conversion")
    /\ UNCHANGED <<cb, mc, cv, fmt, cl, pt, calls, cfg, batchVars, future, pc, result, fs, hist>>

\* Lines 1091-1155: the engine on the converted file; its text formatted and
\* tested; a tensor/reshape RuntimeError routed by OnShapeError; any other
\* error caught by the outer except.
Strategy_Engine ==
    /\ fb.state = "Engine"
    /\ \E r \in EngineResults :
          LET f == [fb EXCEPT !.engine = r, !.engine_calls = @ + 1]
              t == FormatTranscript(r)
          IN
          fb' = CASE r.kind = "ok" ->
                       IF IsTruthy(t)
                       THEN [f EXCEPT !.state = "Success", !.via = "whole",
                                      !.temp = FALSE, !.output = t]
                       ELSE Fail(f, "empty_text")
                  [] IsShapeError(r.kind) ->
                       IF OnShapeError(fb.strategy) = "SegmentSplit"
                       THEN [f EXCEPT !.state = "SegmentSplit", !.shape_seen = TRUE]
                       ELSE [f EXCEPT !.state = "Strategy", !.shape_seen = TRUE,
                                      !.temp = FALSE,
                                      !.strategy = OnShapeError(fb.strategy),
                                      !.tried = Append(@, OnShapeError(fb.strategy))]
                  [] OTHER -> Fail(f, "engine_error")
    /\ UNCHANGED <<cb, mc, cv, fmt, cl, pt, calls, cfg, batchVars, future, pc, result, fs, hist>>

\* _transcribe_by_segments lines 1183-1200: the WAV is loaded (an error is
\* None), an empty one is None, otherwise it is cut in 30 s windows.
Split_Load ==
    /\ fb.state = "SegmentSplit"
    /\ \E loaded \in BOOLEAN :
          fb' = IF loaded /\ fb.audio.duration_ms > 0
                THEN [fb EXCEPT !.state = "Window", !.via = "split", !.w = 1]
                ELSE [Fail(fb, "split") EXCEPT !.via = "split"]
    /\ UNCHANGED <<cb, mc, cv, fmt, cl, pt, calls, cfg, batchVars, future, pc, result, fs, hist>>

\* What the engine hands back for one window.
WindowResults ==
    [kind : {"ok"}, text : RawTexts] \cup
    [kind : {"shape", "runtime_other", "exception"}, text : {<<>>}]

\* Lines 1204-1261, one turn of the loop over the windows.
Split_Window ==
    /\ fb.state = "Window"
    /\ fb.w <= NumWindows(fb.audio.duration_ms)
    /\ \E silent \in BOOLEAN :
          LET valid == ValidateAudioSegment(
                           WindowLen(fb.audio.duration_ms, fb.w), silent)
              next  == [fb EXCEPT !.w = @ + 1]
          IN
          \/ \* the window fails validation: skipped
             /\ ~valid
             /\ fb' = [next EXCEPT !.log = Append(@,
                          [valid |-> FALSE, export |-> "none", kind |-> "none",
                           text |-> <<>>])]
          \/ \* segment.export raises, outside the window's try: the outer
             \* except returns None and the window's temporary file stays
             /\ valid
             /\ fb' = [Fail(fb, "split") EXCEPT
                          !.leaked = @ + 1,
                          !.log = Append(@,
                              [valid |-> TRUE, export |-> "raise",
                               kind |-> "none", text |-> <<>>])]
          \/ \* the exported file is empty: skipped
             /\ valid
             /\ fb' = [next EXCEPT !.log = Append(@,
                          [valid |-> TRUE, export |-> "empty", kind |-> "none",
                           text |-> <<>>])]
          \/ \* the engine runs on the window
             /\ valid
             /\ \E r \in WindowResults :
                   fb' = [next EXCEPT
                            !.engine_calls = @ + 1,
                            !.transcripts =
                                IF r.kind = "ok" /\ Strip(r.text) # <<>>
                                THEN Append(@, Strip(r.text)) ELSE @,
                            !.log = Append(@,
                                [valid |-> TRUE, export |-> "ok",
                                 kind |-> r.kind, text |-> r.text])]
    /\ UNCHANGED <<cb, mc, cv, fmt, cl, pt, calls, cfg, batchVars, future, pc, result, fs, hist>>

\* Lines 1263-1270, and the test of the result in _transcribe_with_fallbacks.
Split_Join ==
    /\ fb.state = "Window"
    /\ fb.w > NumWindows(fb.audio.duration_ms)
    /\ LET t == [layout |-> "joined", text |-> JoinSpace(fb.transcripts)] IN
       fb' = IF fb.transcripts # <<>> /\ IsTruthy(t)
             THEN [fb EXCEPT !.state = "Success", !.temp = FALSE, !.output = t]
             ELSE Fail(fb, "split")
    /\ UNCHANGED <<cb, mc, cv, fmt, cl, pt, calls, cfg, batchVars, future, pc, result, fs, hist>>

\* The state before transcribe_audio(audio_path).
InitFallback ==
    /\ fb \in [audio : AudioFiles, state : {"Start"}, strategy : {None},
               tried : {<<>>}, temp : {FALSE}, leaked : {0},
               engine : {NoEngine}, shape_seen : {FALSE}, via : {None},
               w : {0}, transcripts : {<<>>}, log : {<<>>},
               output : {NoTranscript}, reason : {None},
               engine_calls : {0}, ffmpeg_calls : {0}]
    /\ cl = None
    /\ calls = <<>>
    /\ cfg = None
    /\ bpc = None
    /\ max_workers = 0
    /\ chunk_idx = 0
    /\ pool = 0
    /\ future = <<>>
    /\ results_dict = EmptyDict
    /\ all_results = <<>>
    /\ results = <<>>
    /\ exit_status = NotExited
    /\ pt = None
    /\ cb = None
    /\ mc = None
    /\ cv = None
    /\ fmt = None
    /\ pc = <<>>
    /\ result = <<>>
    /\ fs = EmptyFs
    /\ hist = <<>>

NextFallback ==
    \/ TA_Start
    \/ TA_Validate
    \/ Strategy_Convert
    \/ Strategy_Engine
    \/ Split_Load
    \/ Split_Window
    \/ Split_Join

SpecFallback == InitFallback /\ [][NextFallback]_vars

\* --------------------------------------------- claims: the fallback machine

StrategyFailures == {"conversion", "engine_error", "empty_text"}

\* The chain of the specification, in trial order.
ClaimedChain ==
    <<"aggressive_conversion", "basic_conversion", "pydub", "ultra_basic",
      "direct", "safe_mode">>

C9_SuccessNeedsText ==
    /\ (fb.state = "Success" /\ fb.via = "whole") => Strip(fb.engine.text) # <<>>
    /\ (fb.state \in {"Success", "Fail"} /\ fb.engine.kind = "ok"
            /\ Strip(fb.engine.text) = <<>> /\ fb.engine.segments = "none") =>
           (fb.state = "Fail" /\ fb.output = NoTranscript)

RECURSIVE GoodTexts(_)
\* The stripped texts of the windows of a log that passed validation and
\* produced text that is not empty, in window order.
GoodTexts(log) ==
    IF log = <<>> THEN <<>>
    ELSE LET e == Head(log) IN
         IF e.valid /\ e.kind = "ok" /\ Strip(e.text) # <<>>
         THEN <<Strip(e.text)>> \o GoodTexts(Tail(log))
         ELSE GoodTexts(Tail(log))

\* C10: SegmentSplit succeeds exactly when some window produced text that is
\* not empty, and its text is then the texts of those windows, in window
\* order, joined by one space.
C10_SplitJoinsWindows ==
    (fb.state \in {"Success", "Fail"} /\ fb.via = "split") =>
        /\ (fb.state = "Success") <=> (GoodTexts(fb.log) # <<>>)
        /\ (fb.state = "Success") => fb.output.text = JoinSpace(GoodTexts(fb.log))

\* ------------------------------- AudioProcessorClient.process_single_call

\* Runs of the client pipeline on one call record, one after the other.
MaxRuns == 2

\* fecha_llamada as the client reads it: a '%Y-%m-%d' string, a string that
\* strptime('%Y-%m-%d') rejects, a datetime object, or None.
ClientFechaKinds == {"ymd", "bad_str", "datetime", "none"}

\* What AudioProcessorClient.transcribe_audio returns: the service's
\* transcript, which may be the empty string, or None.
ClientReplies == Transcripts \cup {"", None}

\* result of the client's process_single_call at its start.
NewClientResult == [success |-> FALSE, transcript_path |-> None, error |-> None]

\* The tallies of one run of the client pipeline.
NoClientHist == [downloads |-> 0, transcriptions |-> 0, writes |-> 0]

\* datetime.strptime(fecha_llamada, '%Y-%m-%d') for a string; a datetime is
\* taken as it is and a falsy value becomes datetime.now().
ClientDateAccepted(fecha) == fecha # "bad_str"

\* Lines 230-247: the date and the paths; a rejected date raises into the
\* except branch of lines 278-281.
CL_Begin ==
    /\ cl.pc = "begin"
    /\ cl' = IF ClientDateAccepted(cl.fecha)
             THEN [cl EXCEPT !.pc = "download"]
             ELSE [cl EXCEPT !.pc = "return", !.result.error = "ValueError"]
    /\ UNCHANGED <<cb, mc, cv, fmt, fb, pt, calls, cfg, batchVars, future, pc, result, fs, hist>>

\* Lines 249-254: the audio is downloaded unless a file of its name exists.
CL_Download ==
    /\ cl.pc = "download"
    /\ IF cl.audio # Absent
       THEN cl' = [cl EXCEPT !.pc = "transcribe"]
       ELSE \E o \in DownloadOutcomes :
              cl' = [cl EXCEPT
                       !.audio = AudioAfterDownload(@, o),
                       !.hist.downloads = @ + 1,
                       !.result.error =
                           IF o = "ok" THEN @ ELSE "Error descargando audio",
                       !.pc = IF o = "ok" THEN "transcribe" ELSE "return"]
    /\ UNCHANGED <<cb, mc, cv, fmt, fb, pt, calls, cfg, batchVars, future, pc, result, fs, hist>>

\* Lines 256-266: the audio is sent to the service and a transcript that is
\* not empty is saved under transcript_path.
CL_Transcribe ==
    /\ cl.pc = "transcribe"
    /\ \E reply \in ClientReplies, saved \in BOOLEAN :
          /\ (reply \in {"", None}) => saved
          /\ cl' = IF reply \in {"", None}
                   THEN [cl EXCEPT !.hist.transcriptions = @ + 1,
                                   !.result.error = "Error en transcripción",
                                   !.pc = "cleanup"]
                   ELSE IF saved
                   THEN [cl EXCEPT !.hist.transcriptions = @ + 1,
                                   !.hist.writes = @ + 1,
                                   !.text = reply,
                                   !.result.success = TRUE,
                                   !.result.transcript_path = "transcript_path",
                                   !.pc = "cleanup"]
                   ELSE [cl EXCEPT !.hist.transcriptions = @ + 1,
                                   !.result.error = "Error guardando transcripción",
                                   !.pc = "cleanup"]
    /\ UNCHANGED <<cb, mc, cv, fmt, fb, pt, calls, cfg, batchVars, future, pc, result, fs, hist>>

\* Lines 268-276: the local audio is removed when both flags are set.
CL_Cleanup ==
    /\ cl.pc = "cleanup"
    /\ cl' = [cl EXCEPT
                !.audio = IF cl.AUTO_CLEANUP /\ cl.CLEANUP_AUDIO_FILES
                          THEN Absent ELSE @,
                !.pc = "return"]
    /\ UNCHANGED <<cb, mc, cv, fmt, fb, pt, calls, cfg, batchVars, future, pc, result, fs, hist>>

\* The next run of the pipeline on the same record, on the disk the last run
\* left behind.
CL_Rerun ==
    /\ cl.pc = "return" /\ cl.run < MaxRuns
    /\ cl' = [cl EXCEPT !.run = @ + 1, !.pc = "begin", !.text0 = cl.text,
                        !.result = NewClientResult, !.hist = NoClientHist]
    /\ UNCHANGED <<cb, mc, cv, fmt, fb, pt, calls, cfg, batchVars, future, pc, result, fs, hist>>

\* The state before the first run: the audio and the transcript of the record
\* may be on disk from an earlier program run.
InitClient ==
    /\ cl \in {c \in [fecha : ClientFechaKinds,
                      AUTO_CLEANUP : BOOLEAN, CLEANUP_AUDIO_FILES : BOOLEAN,
                      audio : {Absent, "complete", "partial"},
                      text : Transcripts \cup {Absent},
                      text0 : Transcripts \cup {Absent},
                      pc : {"begin"}, run : {1},
                      result : {NewClientResult}, hist : {NoClientHist}] :
                 c.text0 = c.text}
    /\ fb = None
    /\ calls = <<>>
    /\ cfg = None
    /\ bpc = None
    /\ max_workers = 0
    /\ chunk_idx = 0
    /\ pool = 0
    /\ future = <<>>
    /\ results_dict = EmptyDict
    /\ all_results = <<>>
    /\ results = <<>>
    /\ exit_status = NotExited
    /\ pt = None
    /\ cb = None
    /\ mc = None
    /\ cv = None
    /\ fmt = None
    /\ pc = <<>>
    /\ result = <<>>
    /\ fs = EmptyFs
    /\ hist = <<>>

NextClient ==
    \/ CL_Begin
    \/ CL_Download
    \/ CL_Transcribe
    \/ CL_Cleanup
    \/ CL_Rerun

SpecClient == InitClient /\ [][NextClient]_vars

\* ------------------------------------------------ claims: skip-on-exists

\* C6: when the transcript file of the record exists at the start of
\* process_single_call, the call downloads nothing, transcribes nothing,
\* leaves the transcript file as it was and returns success; in both
\* processors (for AudioProcessor see the "skip" branch of PSC_Begin).
C6_SkipOnExists ==
    (cl.pc = "return" /\ cl.text0 # Absent /\ ClientDateAccepted(cl.fecha)) =>
        /\ cl.hist.downloads = 0
        /\ cl.hist.transcriptions = 0
        /\ cl.text = cl.text0
        /\ cl.result.success

\* ------------------------------------------------------ claims: validation

\* The audio the validation must reject: an empty file, or one whose length
\* pydub reads as below 100 ms.
TooShortOrEmpty(a) ==
    a.exists /\ (a.size = "zero" \/ (a.probe = "ok" /\ a.duration_ms < MinAudioMs))

\* C11: an audio file that is empty, or whose probed duration is below
\* 100 ms, is rejected at Validate: no strategy is started, ffmpeg and the
\* engine are never run, and transcribe_audio ends in Fail (None).
C11_ValidationShortCircuit ==
    TooShortOrEmpty(fb.audio) =>
        /\ fb.tried = <<>>
        /\ fb.engine_calls = 0 /\ fb.ffmpeg_calls = 0
        /\ fb.state \in {"Start", "Validate", "Fail"}
        /\ fb.state = "Fail" => (fb.reason = "validation" /\ fb.output = NoTranscript)

\* A readable file of 99 ms has been rejected by the validation.
C11_Witness ==
    /\ fb.state = "Fail" /\ fb.reason = "validation"
    /\ fb.audio.probe = "ok"
    /\ fb.audio.duration_ms = MinAudioMs - 1

\* ------------------------------------------ the batch under every cleanup flag

\* Records of a batch run under the cleanup configurations.
MaxCleanupCalls == 2

\* The cleanup flags of config.py in every combination, CLEANUP_DELAY off and
\* on; one sequential chunked and one two-worker direct configuration.
CleanupConfigs ==
    {c \in [CPU_OPTIMIZED : {TRUE},
            MAX_CPU_WORKERS : 1..MaxPool,
            MAX_CONCURRENT_TRANSCRIPTIONS : {DefaultConcurrentTranscriptions},
            CHUNK_SIZE : 1..MaxPool,
            AUTO_CLEANUP : BOOLEAN,
            CLEANUP_AUDIO_FILES : BOOLEAN,
            CLEANUP_TEMP_FILES : BOOLEAN,
            KEEP_TRANSCRIPTS : BOOLEAN,
            CLEANUP_DELAY : {0, 1}] :
        c.MAX_CPU_WORKERS = c.CHUNK_SIZE}

\* The disks a run starts on: files under /tmp that hold the call ids or none,
\* and at most one kind of deletion that raises (a permission error).
CleanupDisks ==
    {[EmptyFs EXCEPT !.tmp = [d \in Ids |-> t], !.locked = L] :
        t \in BOOLEAN, L \in {{}, {"audio"}, {"temp"}, {"text"}}}

\* The state before process_calls_batch on such a disk, fecha_llamada of every
\* kind the database or a caller can hand over (one kind per run: the records
\* of a run come from one query).
InitCleanup ==
    /\ calls \in {cs \in SeqUpTo(CallRecords(FechaKinds), MaxCleanupCalls) :
                    /\ cs # <<>> /\ cs[1].id = 1
                    /\ \A k \in 1..Len(cs) : cs[k].fecha_llamada = cs[1].fecha_llamada}
    /\ cfg \in CleanupConfigs
    /\ bpc = "call"
    /\ max_workers = 0
    /\ chunk_idx = 0
    /\ pool = 0
    /\ future = [i \in 1..Len(calls) |-> "unsubmitted"]
    /\ results_dict = EmptyDict
    /\ all_results = <<>>
    /\ results = <<>>
    /\ exit_status = NotExited
    /\ pt = None
    /\ cb = None
    /\ mc = None
    /\ cv = None
    /\ fmt = None
    /\ pc = [i \in 1..Len(calls) |-> "begin"]
    /\ result = [i \in 1..Len(calls) |-> NewResult(calls[i])]
    /\ fs \in CleanupDisks
    /\ hist = [i \in 1..Len(calls) |-> NoHist]
    /\ fb = None
    /\ cl = None

SpecCleanup == InitCleanup /\ [][Next]_vars

\* ------------------------------------------------ claims: the cleanup flags

\* Call i returns its success from the full pipeline in this step.
ReturnsSuccess(i) == pc[i] = "saved" /\ pc'[i] = "return" /\ result'[i].success

\* C12: when a call whose fecha_llamada the pipeline accepts (an ISO string or
\* a datetime) returns success with AUTO_CLEANUP and CLEANUP_AUDIO_FILES set,
\* its audio working directory does not exist (no deletion error assumed).
C12_AudioDirGone ==
    [][\A i \in 1..N :
          (/\ ReturnsSuccess(i)
           /\ DateAccepted(calls[i].fecha_llamada)
           /\ cfg.AUTO_CLEANUP /\ cfg.CLEANUP_AUDIO_FILES
           /\ "audio" \notin fs.locked)
          => fs'.audio[CallDir(calls[i])] = Absent]_vars

\* C13: with KEEP_TRANSCRIPTS set, the transcript a successful call wrote
\* exists when the call returns, after its cleanup has run, whatever the other
\* cleanup flags; and a step removes a transcript only with KEEP_TRANSCRIPTS
\* unset (and AUTO_CLEANUP set).
C13_TranscriptKept ==
    [][/\ \A i \in 1..N :
            (ReturnsSuccess(i) /\ cfg.KEEP_TRANSCRIPTS)
            => fs'.text[CallDir(calls[i])] # Absent
       /\ \A d \in Ids :
            (fs.text[d] # Absent /\ fs'.text[d] = Absent)
            => (~cfg.KEEP_TRANSCRIPTS /\ cfg.AUTO_CLEANUP)]_vars

\* A call has returned success after a cleanup that removed its audio and
\* swept /tmp, with KEEP_TRANSCRIPTS set, and its transcript is on disk.
C13_Witness ==
    \E i \in 1..N :
        /\ pc[i] = "return" /\ result[i].success
        /\ cfg.KEEP_TRANSCRIPTS
        /\ {"audio", "temp"} \subseteq hist[i].swept
        /\ fs.audio[CallDir(calls[i])] = Absent
        /\ fs.text[CallDir(calls[i])] = result[i].transcript

\* C14: with AUTO_CLEANUP unset cleanup_call_files deletes nothing, whatever
\* the other cleanup settings: it leaves every disk as it is, and no step of
\* the run removes an audio file, a transcript or a file under /tmp.
C14_NoCleanupNoDeletion ==
    [][~cfg.AUTO_CLEANUP =>
          /\ \A i \in 1..N : CleanupCallFiles(fs, calls[i], cfg) = fs
          /\ \A d \in Ids :
                /\ fs.audio[d] # Absent => fs'.audio[d] # Absent
                /\ fs.text[d] # Absent => fs'.text[d] # Absent
                /\ fs.meta[d] => fs'.meta[d]
                /\ fs.tmp[d] => fs'.tmp[d]
          /\ \A i \in 1..N : hist'[i].swept = {}]_vars

\* With AUTO_CLEANUP unset and every other setting asking for deletion, a call
\* has returned success and its audio, transcript and /tmp files are on disk.
C14_Witness ==
    \E i \in 1..N :
        /\ ~cfg.AUTO_CLEANUP
        /\ cfg.CLEANUP_AUDIO_FILES /\ cfg.CLEANUP_TEMP_FILES
        /\ ~cfg.KEEP_TRANSCRIPTS /\ cfg.CLEANUP_DELAY > 0
        /\ pc[i] = "return" /\ result[i].success
        /\ fs.audio[CallDir(calls[i])] = "complete"
        /\ fs.text[CallDir(calls[i])] # Absent
        /\ fs.tmp[CallDir(calls[i])]

\* The sub-steps of cleanup_call_files the configuration enables.
EnabledSteps(c) ==
    (IF c.CLEANUP_DELAY > 0 THEN {"delay"} ELSE {})
    \cup (IF c.CLEANUP_AUDIO_FILES THEN {"audio"} ELSE {})
    \cup (IF c.CLEANUP_TEMP_FILES THEN {"temp"} ELSE {})
    \cup (IF ~c.KEEP_TRANSCRIPTS THEN {"text"} ELSE {})

\* C15: in a run of cleanup_call_files past its gate (the date not falsy), an
\* error in one sub-step, the reading of the date for the paths included,
\* keeps no other enabled sub-step from running; and a call that met no
\* failure before its cleanup returns success whatever the cleanup met.
C15_SubStepsIndependent ==
    \A i \in 1..N :
        (/\ pc[i] = "return" /\ hist[i].cleanups = 1
         /\ CleanupDateOutcome(calls[i].fecha_llamada) # "skip")
        => /\ hist[i].swept = EnabledSteps(cfg)
           /\ hist[i].failure = None => result[i].success

\* ------------------------------------------------------- claims: the chunks

\* The number of the chunk that holds input position i, from 0.
ChunkNo(i) == (i - 1) \div cfg.CHUNK_SIZE

\* C16: on the chunked path no call of a later chunk is handed to a worker
\* before every call of every earlier chunk has returned and its result was
\* taken: the chunks run one after another in input order.
C16_ChunksSequential ==
    UseChunks(cfg, N) =>
        \A i, j \in 1..N :
            (ChunkNo(i) < ChunkNo(j) /\ future[j] # "unsubmitted")
            => (pc[i] = "return" /\ future[i] = "collected")

\* A call of the second chunk is running after a first chunk of two calls,
\* one of which failed.
C16_Witness ==
    /\ UseChunks(cfg, N) /\ cfg.CHUNK_SIZE = 2
    /\ \E j \in 1..N : ChunkNo(j) = 1 /\ future[j] = "running" /\ pc[j] # "begin"
    /\ \E i \in 1..N : ChunkNo(i) = 0 /\ ~result[i].success

\* ------------------------------------------------------------ exit status

Exited == exit_status # NotExited

SuccessCount == Cardinality({k \in 1..Len(results) : results[k].success})

\* C17: the exit status of a batch run is determined by the result list alone:
\* 0 iff every call succeeded, 1 iff at least one but not all succeeded, 2 iff
\* none succeeded; and success=false stands at exactly the positions of the
\* calls that failed.
C17_ExitStatusFromResults ==
    Exited =>
        /\ (exit_status.code = 0) <=> (SuccessCount = Len(results))
        /\ (exit_status.code = 1) <=>
               (SuccessCount > 0 /\ SuccessCount < Len(results))
        /\ (exit_status.code = 2) <=> (SuccessCount = 0)
        /\ \A i \in 1..N :
               (~results[i].success) <=> (hist[i].failure \in Failures)

\* ------------------------------------------------- _format_transcript

MaxSegments == 3

\* Segment times in seconds: gaps of 2 s and of more than 2 s, durations of
\* less and of more than 30 s, and a time beyond the first minute.
TimePoints == {0, 2, 5, 31, 65}

\* The two thresholds of lines 575-576, in seconds.
MaxBlockSeconds == 30
MaxGapSeconds == 2

\* A time that is None.
NoTime == -1

\* The texts of a segment: blank, or a word.
SegmentTexts == {<<" ">>, <<"a">>}

\* The segment lists of an engine result: each segment ends no earlier than it
\* starts and starts no earlier than the one before it ends.
SegmentLists ==
    {ss \in SeqUpTo([start : TimePoints, end : TimePoints, text : SegmentTexts],
                    MaxSegments) :
        /\ \A k \in 1..Len(ss) : ss[k].start <= ss[k].end
        /\ \A k \in 1..Len(ss) - 1 : ss[k].end <= ss[k + 1].start}

\* The results handed to _format_transcript.  text_kind: result["text"] is a
\* string, is None, or the key is missing.  bad: the position of a segment
\* without its "start" key, 0 when every segment is whole.
FormatInputs ==
    {r \in [text_kind : {"str", "none", "missing"},
            text : {<<>>, <<" ", "a">>},
            segments : SegmentLists,
            bad : 0..MaxSegments] :
        /\ r.bad <= Len(r.segments)
        /\ r.text_kind # "str" => r.text = <<>>}

\* _format_time, lines 703-715: minutes and seconds of MM:SS.
FormatTime(seconds) == <<seconds \div 60, seconds % 60>>

\* Lines 569-572: the gap between segment i and the segment after it in the
\* list, 0 for the last one.
NextSegmentGap(segs, i) ==
    IF i + 1 <= Len(segs) THEN segs[i + 1].start - segs[i].end ELSE 0

\* Lines 574-578.
ShouldBreak(segs, i, accumulated_duration) ==
    \/ accumulated_duration > MaxBlockSeconds
    \/ NextSegmentGap(segs, i) > MaxGapSeconds
    \/ i = Len(segs)

\* Lines 535-549: the text is stripped and formatted, then the layout chosen.
FT_Begin ==
    /\ fmt.pc = "begin"
    /\ IF fmt.input.text_kind # "str"
       THEN fmt' = [fmt EXCEPT !.pc = "except"]
       ELSE IF fmt.input.segments # <<>>
       THEN fmt' = [fmt EXCEPT !.pc = "loop", !.i = 1]
       ELSE fmt' = [fmt EXCEPT !.pc = "done",
                               !.ret = [layout |-> "paragraph",
                                        text |-> Strip(fmt.input.text),
                                        blocks |-> <<>>]]
    /\ UNCHANGED <<cb, mc, cv, fb, cl, pt, calls, cfg, batchVars, future, pc, result, fs, hist>>

\* Lines 554-596: one turn of the loop over result["segments"].  The texts of
\* current_speaker_text are kept as the positions of their segments.
FT_Segment ==
    /\ fmt.pc = "loop"
    /\ fmt.i <= Len(fmt.input.segments)
    /\ LET segs == fmt.input.segments
           i == fmt.i
           text == Strip(segs[i].text)
           start == IF fmt.current_start_time = NoTime THEN segs[i].start
                    ELSE fmt.current_start_time
           speaker == Append(fmt.current_speaker_text, i)
           accumulated == segs[i].end - start
       IN
       IF fmt.input.bad = i
       THEN fmt' = [fmt EXCEPT !.pc = "except"]
       ELSE IF text = <<>>
       THEN fmt' = [fmt EXCEPT !.i = i + 1]
       ELSE IF fmt.input.bad = i + 1
       THEN fmt' = [fmt EXCEPT !.pc = "except"]
       ELSE IF ShouldBreak(segs, i, accumulated)
       THEN fmt' = [fmt EXCEPT
                      !.i = i + 1,
                      !.blocks = Append(@, [start |-> FormatTime(start),
                                            end |-> FormatTime(segs[i].end),
                                            segs |-> speaker]),
                      !.current_speaker_text = <<>>,
                      !.current_start_time = NoTime]
       ELSE fmt' = [fmt EXCEPT !.i = i + 1,
                               !.current_speaker_text = speaker,
                               !.current_start_time = start]
    /\ UNCHANGED <<cb, mc, cv, fb, cl, pt, calls, cfg, batchVars, future, pc, result, fs, hist>>

\* Lines 598-607: the loop is over, the summary is appended and the lines are
\* joined.
FT_Footer ==
    /\ fmt.pc = "loop"
    /\ fmt.i > Len(fmt.input.segments)
    /\ fmt' = [fmt EXCEPT !.pc = "done",
                          !.ret = [layout |-> "segmented",
                                   text |-> Strip(fmt.input.text),
                                   blocks |-> fmt.blocks]]
    /\ UNCHANGED <<cb, mc, cv, fb, cl, pt, calls, cfg, batchVars, future, pc, result, fs, hist>>

\* Lines 612-615: the handler returns result.get("text", "").strip(); when
\* result["text"] is None the call of strip() raises AttributeError out of
\* the handler.
FT_Except ==
    /\ fmt.pc = "except"
    /\ IF fmt.input.text_kind = "none"
       THEN fmt' = [fmt EXCEPT !.pc = "raised"]
       ELSE fmt' = [fmt EXCEPT !.pc = "done",
                               !.ret = [layout |-> "raw",
                                        text |-> Strip(fmt.input.text),
                                        blocks |-> <<>>]]
    /\ UNCHANGED <<cb, mc, cv, fb, cl, pt, calls, cfg, batchVars, future, pc, result, fs, hist>>

NoFormatted == [layout |-> "none", text |-> <<>>, blocks |-> <<>>]

\* The state before _format_transcript(result).
InitFormat ==
    /\ fmt \in [pc : {"begin"}, input : FormatInputs, i : {0},
                current_speaker_text : {<<>>}, current_start_time : {NoTime},
                blocks : {<<>>}, ret : {NoFormatted}]
    /\ fb = None
    /\ cl = None
    /\ calls = <<>>
    /\ cfg = None
    /\ bpc = None
    /\ max_workers = 0
    /\ chunk_idx = 0
    /\ pool = 0
    /\ future = <<>>
    /\ results_dict = EmptyDict
    /\ all_results = <<>>
    /\ results = <<>>
    /\ exit_status = NotExited
    /\ pt = None
    /\ cb = None
    /\ mc = None
    /\ cv = None
    /\ pc = <<>>
    /\ result = <<>>
    /\ fs = EmptyFs
    /\ hist = <<>>

NextFormat ==
    \/ FT_Begin
    \/ FT_Segment
    \/ FT_Footer
    \/ FT_Except

SpecFormat == InitFormat /\ [][NextFormat]_vars

\* ------------------------------------------------------ segmented layout

Range(s) == {s[k] : k \in 1..Len(s)}

\* Line 559: the segments whose stripped text is not empty.
NonEmptySegments(segs) == {k \in 1..Len(segs) : Strip(segs[k].text) # <<>>}

\* The blocks of the returned transcript that render segment k.
BlocksOf(k) == {b \in 1..Len(fmt.ret.blocks) : k \in Range(fmt.ret.blocks[b].segs)}

FormattedSegmented == fmt.pc = "done" /\ fmt.ret.layout = "segmented"

\* C18: in the segmented layout every segment with non-empty text is rendered
\* in exactly one timestamp block; blocks follow segment order; a block is
\* closed exactly at a segment where the duration accumulated since the
\* block's first segment exceeds 30 s, or the gap to the next segment exceeds
\* 2 s, or the stream ends; and the bounds of a block are the start of its
\* first segment and the end of its last one.
C18_SegmentsInBlocks ==
    FormattedSegmented =>
        LET segs == fmt.input.segments
            blocks == fmt.ret.blocks
        IN
        /\ \A k \in NonEmptySegments(segs) : Cardinality(BlocksOf(k)) = 1
        /\ \A b \in 1..Len(blocks) :
              LET ks == blocks[b].segs IN
              /\ ks # <<>>
              /\ \A m \in 1..Len(ks) - 1 : ks[m] < ks[m + 1]
              /\ b < Len(blocks) => ks[Len(ks)] < blocks[b + 1].segs[1]
              /\ blocks[b].start = FormatTime(segs[ks[1]].start)
              /\ blocks[b].end = FormatTime(segs[ks[Len(ks)]].end)
              /\ \A m \in 1..Len(ks) :
                    (m = Len(ks)) <=>
                        ShouldBreak(segs, ks[m],
                                    segs[ks[m]].end - segs[ks[1]].start)

\* ------------------------------------------------------ formatting failure

Transcribing(i) == pc[i] = "transcribing"

\* C20: at no time during process_calls_batch are two transcription attempts
\* for the same call id in flight, whatever the input list, lists in which a
\* call id occurs in more than one record included.
C20_OneAttemptPerCallId ==
    \A i, j \in 1..N :
        (i # j /\ calls[i].id = calls[j].id) =>
            ~(Transcribing(i) /\ Transcribing(j))

\* ------------------------------------------------------ partial downloads

\* The download step of the client has just returned False.
ClientDownloadFailed == cl.pc = "download" /\ cl'.pc = "return"

\* The existence test of lines 249-254 has just let the run go on to the
\* transcription.
ClientAudioTaken == cl.pc = "download" /\ cl'.pc = "transcribe"

\* C21: when a download fails at any point, the middle of the byte stream
\* included, no file exists under the destination name afterwards, so a run
\* that tests the destination's existence never takes a partial file for a
\* complete one.
C21_NoPartialFileLeft ==
    [][/\ ClientDownloadFailed => cl'.audio = Absent
       /\ ClientAudioTaken => cl'.audio = "complete"]_vars

\* ------------------------------------------------------- write failures

\* C22: a failure to write the transcript file or the metadata sidecar to
\* disk makes the result of the call success=false.
C22_WriteFailureFailsCall ==
    \A i \in 1..N :
        (pc[i] = "return" /\ (hist[i].failure = "persistence" \/ hist[i].meta_failed))
            => ~result[i].success

\* --------------------------- AudioProcessorClient.process_calls_batch

\* The configurations the client batch reads.
ClientBatchConfigs ==
    [ENABLE_PARALLEL_TRANSCRIPTIONS : BOOLEAN, MAX_CPU_WORKERS : 1..MaxPool]

\* Lines 297-306: the parallel path is taken for more than one call and more
\* than one worker when it is enabled.
UseParallel(c, n) ==
    c.ENABLE_PARALLEL_TRANSCRIPTIONS /\ n > 1 /\ c.MAX_CPU_WORKERS > 1

\* The tasks of the client batch in a given state.
ClientTasks(st) == {i \in 1..Len(cb.calls) : cb.task[i] = st}

\* Lines 293-306, and 335-346 on the parallel path: the pool is created and
\* every call is submitted.
CB_Start ==
    /\ cb.pc = "call"
    /\ cb' = IF UseParallel(cb.cfg, Len(cb.calls))
             THEN [cb EXCEPT !.pc = "parallel",
                             !.max_workers = Min(cb.cfg.MAX_CPU_WORKERS,
                                                 Len(cb.calls))]
             ELSE [cb EXCEPT !.pc = "sequential"]
    /\ UNCHANGED <<fmt, fb, cl, pt, calls, cfg, batchVars, future, pc, result, fs, hist,
                   mc, cv>>

\* _process_calls_sequential, lines 315-318: the next call is processed and
\* its result appended.
CB_Sequential ==
    /\ cb.pc = "sequential"
    /\ Len(cb.results) < Len(cb.calls)
    /\ LET i == Len(cb.results) + 1 IN
       cb' = [cb EXCEPT !.task[i] = "collected",
                        !.results = Append(@, cb.calls[i])]
    /\ UNCHANGED <<fmt, fb, cl, pt, calls, cfg, batchVars, future, pc, result, fs, hist,
                   mc, cv>>

\* A free worker of the pool takes the oldest queued task.
CB_Take(i) ==
    /\ cb.pc = "parallel"
    /\ cb.task[i] = "pending"
    /\ \A j \in 1..(i - 1) : cb.task[j] # "pending"
    /\ Cardinality(ClientTasks("running")) < cb.max_workers
    /\ cb' = [cb EXCEPT !.task[i] = "running"]
    /\ UNCHANGED <<fmt, fb, cl, pt, calls, cfg, batchVars, future, pc, result, fs, hist,
                   mc, cv>>

\* process_single_call of the task returns (or raises) on its worker.
CB_Done(i) ==
    /\ cb.pc = "parallel"
    /\ cb.task[i] = "running"
    /\ cb' = [cb EXCEPT !.task[i] = "done"]
    /\ UNCHANGED <<fmt, fb, cl, pt, calls, cfg, batchVars, future, pc, result, fs, hist,
                   mc, cv>>

\* Lines 350-371: as_completed yields a finished future and its result, or
\* the placeholder of the except branch, is appended; both carry the id of
\* the call.
CB_Collect(i) ==
    /\ cb.pc = "parallel"
    /\ cb.task[i] = "done"
    /\ cb' = [cb EXCEPT !.task[i] = "collected",
                        !.results = Append(@, cb.calls[i])]
    /\ UNCHANGED <<fmt, fb, cl, pt, calls, cfg, batchVars, future, pc, result, fs, hist,
                   mc, cv>>

\* Lines 329 and 375: the list is returned.
CB_Return ==
    /\ cb.pc \in {"sequential", "parallel"}
    /\ ClientTasks("collected") = 1..Len(cb.calls)
    /\ cb' = [cb EXCEPT !.pc = "returned"]
    /\ UNCHANGED <<fmt, fb, cl, pt, calls, cfg, batchVars, future, pc, result, fs, hist,
                   mc, cv>>

\* The state before AudioProcessorClient.process_calls_batch(calls_data).
InitClientBatch ==
    /\ \E cs \in SeqUpTo(Ids, MaxCalls), c \in ClientBatchConfigs :
          cb = [calls |-> cs, cfg |-> c, pc |-> "call", max_workers |-> 0,
                task |-> [i \in 1..Len(cs) |-> "pending"], results |-> <<>>]
    /\ fb = None
    /\ cl = None
    /\ fmt = None
    /\ mc = None
    /\ cv = None
    /\ calls = <<>>
    /\ cfg = None
    /\ bpc = None
    /\ max_workers = 0
    /\ chunk_idx = 0
    /\ pool = 0
    /\ future = <<>>
    /\ results_dict = EmptyDict
    /\ all_results = <<>>
    /\ results = <<>>
    /\ exit_status = NotExited
    /\ pt = None
    /\ pc = <<>>
    /\ result = <<>>
    /\ fs = EmptyFs
    /\ hist = <<>>

NextClientBatch ==
    \/ CB_Start
    \/ CB_Sequential
    \/ \E i \in 1..Len(cb.calls) : CB_Take(i)
    \/ \E i \in 1..Len(cb.calls) : CB_Done(i)
    \/ \E i \in 1..Len(cb.calls) : CB_Collect(i)
    \/ CB_Return

SpecClientBatch == InitClientBatch /\ [][NextClientBatch]_vars

\* C23: AudioProcessorClient.process_calls_batch returns, on its parallel
\* path as on its sequential path, a list as long as the input whose call_id
\* sequence is the input's id sequence, whatever the order in which the
\* workers finish.
C23_ClientOrderPreserved ==
    cb.pc = "returned" =>
        /\ Len(cb.results) = Len(cb.calls)
        /\ \A k \in 1..Len(cb.calls) : cb.results[k] = cb.calls[k]

\* ------------------------------------------------- files of calls in flight

\* C24: while the pipeline of a call is in flight, the cleanup of another call
\* (the removal of the audio directory or the sweep of /tmp by call-id name
\* pattern) never deletes a file that pipeline created and still uses: its
\* downloaded audio or its temporary WAV.
C24_CleanupSparesFilesInUse ==
    \A i \in 1..N :
        Transcribing(i) =>
            /\ fs.audio[CallDir(calls[i])] # Absent
            /\ hist[i].wav # "swept"

\* ------------------------------------------------------------- ModelCache

MaxThreads == 2

Threads == 1..MaxThreads

\* model is None.
NoModel == 0

\* One thread's step of ModelCache() followed by get_model(name); every
\* thread asks for the same model name.
\* Lines 190-195, __new__: the unlocked test, the lock, the second test, the
\* instance and its _initialized flag, each a step of its own.
MC_New(t) ==
    /\ mc.tpc[t] \in {"new_check", "new_lock", "new_check2", "new_create",
                      "new_flag", "new_unlock"}
    /\ mc' = CASE mc.tpc[t] = "new_check" ->
                    [mc EXCEPT !.tpc[t] = IF mc.instance THEN "init_check"
                                          ELSE "new_lock"]
               [] mc.tpc[t] = "new_lock" ->
                    IF mc.lock = 0
                    THEN [mc EXCEPT !.lock = t, !.tpc[t] = "new_check2"]
                    ELSE mc
               [] mc.tpc[t] = "new_check2" ->
                    [mc EXCEPT !.tpc[t] = IF mc.instance THEN "new_unlock"
                                          ELSE "new_create"]
               [] mc.tpc[t] = "new_create" ->
                    [mc EXCEPT !.instance = TRUE, !.tpc[t] = "new_flag"]
               [] mc.tpc[t] = "new_flag" ->
                    [mc EXCEPT !.initialized = "false", !.tpc[t] = "new_unlock"]
               [] mc.tpc[t] = "new_unlock" ->
                    [mc EXCEPT !.lock = 0, !.tpc[t] = "init_check"]
    /\ mc' # mc
    /\ UNCHANGED <<fmt, fb, cl, pt, calls, cfg, batchVars, future, pc, result, fs, hist,
                   cb, cv>>

\* Lines 198-206, __init__: the test of _initialized (AttributeError while the
\* creating thread has not set it yet), then model, model_name and the flag.
MC_Init(t) ==
    /\ mc.tpc[t] \in {"init_check", "init_model", "init_name", "init_flag"}
    /\ mc' = CASE mc.tpc[t] = "init_check" ->
                    [mc EXCEPT !.tpc[t] =
                        CASE mc.initialized = "unset" -> "raised"
                          [] mc.initialized = "false" -> "init_model"
                          [] mc.initialized = "true"  -> "get_check"]
               [] mc.tpc[t] = "init_model" ->
                    [mc EXCEPT !.model = NoModel, !.tpc[t] = "init_name"]
               [] mc.tpc[t] = "init_name" ->
                    [mc EXCEPT !.named = FALSE, !.tpc[t] = "init_flag"]
               [] mc.tpc[t] = "init_flag" ->
                    [mc EXCEPT !.initialized = "true", !.tpc[t] = "get_check"]
    /\ UNCHANGED <<fmt, fb, cl, pt, calls, cfg, batchVars, future, pc, result, fs, hist,
                   cb, cv>>

\* Lines 208-259, get_model: the test of the cache, whisper.load_model (every
\* load makes a new model object), the two assignments, and the return of
\* self.model as it is read then.  No lock is taken.
MC_GetModel(t) ==
    /\ mc.tpc[t] \in {"get_check", "load", "store", "set_name", "ret"}
    /\ mc' = CASE mc.tpc[t] = "get_check" ->
                    [mc EXCEPT !.tpc[t] =
                        IF mc.model = NoModel \/ ~mc.named THEN "load" ELSE "ret"]
               [] mc.tpc[t] = "load" ->
                    [mc EXCEPT !.loads = @ + 1, !.loaded[t] = mc.loads + 1,
                               !.tpc[t] = "store"]
               [] mc.tpc[t] = "store" ->
                    [mc EXCEPT !.model = mc.loaded[t], !.tpc[t] = "set_name"]
               [] mc.tpc[t] = "set_name" ->
                    [mc EXCEPT !.named = TRUE, !.tpc[t] = "ret"]
               [] mc.tpc[t] = "ret" ->
                    [mc EXCEPT !.got[t] = mc.model, !.tpc[t] = "done"]
    /\ UNCHANGED <<fmt, fb, cl, pt, calls, cfg, batchVars, future, pc, result, fs, hist,
                   cb, cv>>

\* The cache before the threads start: the class just defined, or the instance
\* that "model_cache = ModelCache()" (line 262) made at import, with no model.
InitModelCache ==
    /\ \E made \in BOOLEAN :
          mc = [instance |-> made,
                initialized |-> IF made THEN "true" ELSE "unset",
                model |-> NoModel, named |-> FALSE, lock |-> 0, loads |-> 0,
                tpc |-> [t \in Threads |-> "new_check"],
                loaded |-> [t \in Threads |-> NoModel],
                got |-> [t \in Threads |-> NoModel]]
    /\ fb = None
    /\ cl = None
    /\ fmt = None
    /\ cb = None
    /\ cv = None
    /\ calls = <<>>
    /\ cfg = None
    /\ bpc = None
    /\ max_workers = 0
    /\ chunk_idx = 0
    /\ pool = 0
    /\ future = <<>>
    /\ results_dict = EmptyDict
    /\ all_results = <<>>
    /\ results = <<>>
    /\ exit_status = NotExited
    /\ pt = None
    /\ pc = <<>>
    /\ result = <<>>
    /\ fs = EmptyFs
    /\ hist = <<>>

NextModelCache ==
    \/ \E t \in Threads : MC_New(t)
    \/ \E t \in Threads : MC_Init(t)
    \/ \E t \in Threads : MC_GetModel(t)

SpecModelCache == InitModelCache /\ [][NextModelCache]_vars

ThreadsFinished == \A t \in Threads : mc.tpc[t] \in {"done", "raised"}

\* C25: for every interleaving of threads that construct ModelCache and call
\* get_model with the same model name, the model is loaded exactly once and
\* every caller receives that same model object.
C25_ModelLoadedOnce ==
    ThreadsFinished =>
        /\ mc.loads = 1
        /\ \A t \in Threads :
              mc.tpc[t] = "done" /\ mc.got[t] # NoModel /\ mc.got[t] = mc.got[1]

\* --------------------------------------------------------------- pool bound

\* Lines 1576-1580: the configured size of the pool.
PoolSize(c) ==
    IF c.CPU_OPTIMIZED THEN c.MAX_CPU_WORKERS ELSE c.MAX_CONCURRENT_TRANSCRIPTIONS

\* C26: at every moment of process_calls_batch the number of calls whose
\* pipeline is executing is at most the configured pool size (MAX_CPU_WORKERS
\* with CPU_OPTIMIZED, else MAX_CONCURRENT_TRANSCRIPTIONS), and in chunked
\* mode at most the smaller of the pool size and CHUNK_SIZE.
C26_PoolBound ==
    /\ Cardinality(Executing) <= PoolSize(cfg)
    /\ UseChunks(cfg, N) =>
           Cardinality(Executing) <= Min(PoolSize(cfg), cfg.CHUNK_SIZE)

\* A chunked batch whose chunk size, smaller than the pool, is what bounds
\* the executing calls: a whole chunk is executing.
C26_Witness ==
    /\ UseChunks(cfg, N)
    /\ cfg.CHUNK_SIZE < PoolSize(cfg)
    /\ Cardinality(Executing) = cfg.CHUNK_SIZE

\* ------------------------------------------------------- errored windows

\* SegmentSplit has ended after it had started on the windows.
SplitEnded ==
    fb.state \in {"Success", "Fail"} /\ fb.via = "split" /\ fb.log # <<>>

\* The windows of a log whose export or transcription raised.
ErroredWindows(log) ==
    {k \in 1..Len(log) :
        log[k].export = "raise" \/
        log[k].kind \in {"shape", "runtime_other", "exception"}}

\* C27: in SegmentSplit a window whose export or transcription raises is
\* skipped without a retry (the engine runs at most once per window) and the
\* windows after it are still transcribed.
C27_ErroredWindowSkipped ==
    SplitEnded =>
        /\ fb.engine_calls <= 1 + Len(fb.log)
        /\ ErroredWindows(fb.log) # {} =>
               Len(fb.log) = NumWindows(fb.audio.duration_ms)

\* ------------------------------------------------- other engine errors

\* C28: an engine error that is no shape error ends the strategy as a
\* strategy failure: the engine is not invoked a second time on the same
\* input and SegmentSplit is not entered because of it.
C28_OtherErrorFailsStrategy ==
    (fb.engine.kind \in {"runtime_other", "exception"}) =>
        /\ fb.state = "Fail" /\ fb.reason = "engine_error"
        /\ fb.engine_calls = 1
        /\ fb.via # "split" /\ fb.log = <<>>

\* The engine raised a RuntimeError that names no shape problem on an audio of
\* several windows.
C28_Witness ==
    /\ fb.engine.kind = "runtime_other"
    /\ fb.state = "Fail"
    /\ NumWindows(fb.audio.duration_ms) > 1

\* --------------------------------------------------------- too-small files

\* C29: an audio file that is too small (not empty but under 1 KB) fails the
\* call at validation, without any transcription attempt.
C29_SmallFileRejected ==
    (fb.audio.exists /\ fb.audio.size = "small") =>
        /\ fb.state \in {"Start", "Validate", "Fail"}
        /\ fb.state = "Fail" => fb.reason = "validation"
        /\ fb.engine_calls = 0 /\ fb.ffmpeg_calls = 0

\* --------------------------------------------------- convert_audio_format

\* The presets of the claimed chain, top-down.
ConvertPresets == <<"aggressive", "basic", "ultra_basic">>

\* What one ffmpeg run of subprocess.run does: exit code 0, a nonzero exit
\* code, TimeoutExpired, or another exception (ffmpeg missing).
FfmpegOutcomes == {"zero", "nonzero", "timeout", "exception"}

\* ffmpeg cannot exit with 0 on an input that is missing or empty.
FfmpegCan(a) ==
    IF a.exists /\ a.size # "zero" THEN FfmpegOutcomes
    ELSE FfmpegOutcomes \ {"zero"}

\* The two implementations of convert_audio_format.
ConvertImpls == {"AudioProcessor", "WhisperService"}

\* src/audio_processor.py 509-523: a nonzero exit code, a timeout and any other
\* exception of the aggressive preset all lead to _fallback_conversion.
\* src/.docker/whisper_service.py 92-101: a nonzero exit code leads to
\* _fallback_conversion; an exception, TimeoutExpired included, is False.
AfterAggressive(impl, o) ==
    IF o = "zero" THEN "true"
    ELSE IF impl = "AudioProcessor" \/ o = "nonzero" THEN "fallback"
    ELSE "false"

\* The first ffmpeg run, with the aggressive filter chain.
CV_Aggressive ==
    /\ cv.pc = "aggressive"
    /\ \E o \in FfmpegCan(cv.audio) :
          cv' = [cv EXCEPT !.tried = Append(@, "aggressive"),
                           !.outcomes = Append(@, o),
                           !.pc = AfterAggressive(cv.impl, o)]
    /\ UNCHANGED <<fmt, fb, cl, pt, calls, cfg, batchVars, future, pc, result, fs, hist,
                   cb, mc>>

\* _fallback_conversion (src/audio_processor.py 794-820, whisper_service.py
\* 103-117): the basic preset; True on exit code 0, else False.
CV_Fallback ==
    /\ cv.pc = "fallback"
    /\ \E o \in FfmpegCan(cv.audio) :
          cv' = [cv EXCEPT !.tried = Append(@, "basic"),
                           !.outcomes = Append(@, o),
                           !.pc = IF o = "zero" THEN "true" ELSE "false"]
    /\ UNCHANGED <<fmt, fb, cl, pt, calls, cfg, batchVars, future, pc, result, fs, hist,
                   cb, mc>>

\* The state before convert_audio_format(input_path, output_path).
InitConvert ==
    /\ cv \in [impl : ConvertImpls, audio : AudioFiles, pc : {"aggressive"},
               tried : {<<>>}, outcomes : {<<>>}]
    /\ fb = None
    /\ cl = None
    /\ fmt = None
    /\ cb = None
    /\ mc = None
    /\ calls = <<>>
    /\ cfg = None
    /\ bpc = None
    /\ max_workers = 0
    /\ chunk_idx = 0
    /\ pool = 0
    /\ future = <<>>
    /\ results_dict = EmptyDict
    /\ all_results = <<>>
    /\ results = <<>>
    /\ exit_status = NotExited
    /\ pt = None
    /\ pc = <<>>
    /\ result = <<>>
    /\ fs = EmptyFs
    /\ hist = <<>>

NextConvert ==
    \/ CV_Aggressive
    \/ CV_Fallback

SpecConvert == InitConvert /\ [][NextConvert]_vars

\* C30: convert_audio_format tries the presets aggressive, basic, ultra-basic
\* in that order: a nonzero exit code or a timeout of a preset leads to the
\* next one, it returns success at the first preset that succeeds, and it
\* returns failure only after all three presets have failed.
C30_ThreePresetsInOrder ==
    /\ cv.tried = SubSeq(ConvertPresets, 1, Len(cv.tried))
    /\ \A k \in 1..Len(cv.outcomes) :
          cv.outcomes[k] \in {"nonzero", "timeout"} =>
              (Len(cv.tried) > k \/ k = Len(ConvertPresets) \/
               cv.pc \notin {"true", "false"})
    /\ cv.pc = "true" => cv.outcomes[Len(cv.outcomes)] = "zero"
    /\ cv.pc = "false" => Len(cv.tried) = Len(ConvertPresets)

\* ------------------------------------ claims: what transcribe_audio leaves

\* The layouts _format_transcript writes with banner, title and footer.
FormattedLayouts == {"segmented", "paragraph"}

\* C31: every transcript handed back by a successful transcribe_audio, and so
\* persisted by save_transcript, has the transcript text format (banner rules,
\* title, body in one of the two layouts, footer), by whichever path it was
\* produced, SegmentSplit included.
C31_TranscriptHasFormat ==
    fb.state = "Success" => fb.output.layout \in FormattedLayouts

\* The temporary WAV files of one transcribe_audio call that are on disk.
TempWavsOnDisk == (IF fb.temp THEN 1 ELSE 0) + fb.leaked

\* C32: when transcribe_audio has returned, with a transcript or with None,
\* every temporary WAV file it created, whole-file or per-window, is deleted.
C32_TempWavsDeleted ==
    fb.state \in {"Success", "Fail"} => TempWavsOnDisk = 0

\* ------------------------------------------- an interrupt during the batch

\* The longest input list of the runs that are interrupted.
MaxInterruptCalls == 2

\* sys.exit(130), src/main.py line 270.
InterruptExitCode == 130

\* The tasks handed to an executor that have not finished: queued or running.
InFlight == {i \in 1..N : future[i] \in {"pending", "running"}}

\* A KeyboardInterrupt is raised in the main thread while it is inside
\* process_calls_batch.  No handler of the batch catches it (they are all
\* "except Exception"), so it leaves the as_completed loop and enters the
\* __exit__ of the executor's with block, which is shutdown(wait=True).
Batch_Interrupt ==
    /\ bpc \in {"call", "collect", "chunk_loop", "chunk_collect"}
    /\ bpc' = "interrupted"
    /\ hist' = [i \in 1..N |-> [hist[i] EXCEPT !.in_flight = i \in InFlight]]
    /\ UNCHANGED <<cb, mc, cv, fmt, fb, cl, pt, calls, cfg, exit_status,
                   max_workers, chunk_idx, pool, future, results_dict,
                   all_results, results, pc, result, fs>>

WorkersJoinedAtOnce == TRUE

\* shutdown(wait=True) joins the worker threads: they have run every task
\* that was queued (cancel_futures is not set) and have ended.
WorkersJoined == InFlight = {}

\* The with block is left and the KeyboardInterrupt goes on to main().
Batch_Unwind ==
    /\ bpc = "interrupted"
    /\ WorkersJoined
    /\ bpc' = "interrupt_raised"
    /\ pool' = 0
    /\ UNCHANGED <<cb, mc, cv, fmt, fb, cl, pt, calls, cfg, exit_status,
                   max_workers, chunk_idx, future, results_dict,
                   all_results, results, pc, result, fs, hist>>

\* src/main.py 268-270: except KeyboardInterrupt, sys.exit(130).
Main_Interrupted ==
    /\ bpc = "interrupt_raised"
    /\ exit_status = NotExited
    /\ exit_status' = [code |-> InterruptExitCode, reported |-> FALSE]
    /\ UNCHANGED <<cb, mc, cv, fmt, fb, cl, pt, calls, cfg, bpc, max_workers,
                   chunk_idx, pool, results_dict, all_results, results,
                   future, pc, result, fs, hist>>

\* The state before process_calls_batch on a non-empty list.
InitInterrupt ==
    /\ Init
    /\ N \in 1..MaxInterruptCalls

NextInterrupt ==
    \/ Next
    \/ Batch_Interrupt
    \/ Batch_Unwind
    \/ Main_Interrupted

SpecInterrupt == InitInterrupt /\ [][NextInterrupt]_vars

\* The main thread and the worker threads all keep being scheduled.
FairSpecInterrupt == SpecInterrupt /\ WF_vars(NextInterrupt)

\* A call that was in flight at the interrupt has run to its result.
Drained(i) == pc[i] = "return" /\ future[i] = "done"

\* C33: after an interrupt during process_calls_batch the run ends with exit
\* status 130, which is none of the result codes 0, 1, 2, and at that exit
\* every call that was in flight at the interrupt has been drained to a
\* result.
C33_InterruptDrainsAndExits ==
    /\ [](exit_status.code = InterruptExitCode =>
            \A i \in 1..N : hist[i].in_flight => Drained(i))
    /\ ((bpc = "interrupted") ~> (exit_status.code = InterruptExitCode))
    /\ [](exit_status.code = InterruptExitCode => bpc = "interrupt_raised")
    /\ [](bpc \in {"returned", "raised"} => exit_status.code \in {-1, 0, 1, 2})

\* The run has exited with 130 after an interrupt that found a call queued or
\* running, and that call was transcribed and its cleanup was performed.
C33_Witness ==
    /\ exit_status.code = InterruptExitCode
    /\ \E i \in 1..N :
          /\ hist[i].in_flight
          /\ result[i].success
          /\ hist[i].cleanups = 1

\* ------------------------------------------------ claims: the result records

\* A path field of a result holds a path: it is neither None (the initial
\* value) nor missing from the dict (the placeholder has no such key).
PathIsSet(p) == ToString(p) \notin {ToString(None), ToString("missing")}

\* C34: in every result returned by process_calls_batch, success is true
\* exactly when error is None, and a successful result has its
\* transcript_path set; on the skip-on-exists, normal, exception and
\* placeholder paths alike.
C34_SuccessIffNoError ==
    Returned =>
        \A k \in 1..Len(results) :
            /\ results[k].success <=> results[k].error = None
            /\ results[k].success => PathIsSet(results[k].transcript_path)

\* C35: whenever process_single_call returns success=true, the file named by
\* the result's transcript_path exists at the moment of the return, for every
\* combination of the cleanup flags, KEEP_TRANSCRIPTS=false included.
C35_TranscriptExistsAtReturn ==
    [][\A i \in 1..N :
          (pc[i] # "return" /\ pc'[i] = "return" /\ result'[i].success) =>
              fs'.text[CallDir(calls[i])] # Absent]_vars

\* ------------------------------------- claims: the fallback machine ends

\* Every engine and transcoder invocation returns, and the thread running
\* transcribe_audio keeps being scheduled.
FairSpecFallback == SpecFallback /\ WF_vars(NextFallback)

\* transcribe_audio has returned.
FallbackEnded == fb.state \in {"Success", "Fail"}

\* The states of safe mode before the engine has answered, and of
\* _transcribe_by_segments.
InSafeMode == fb.state \in {"Strategy", "Engine"}

InSegmentSplit == fb.state \in {"SegmentSplit", "Window"}

\* C36: one call of transcribe_audio always ends; on an audio of W windows of
\* thirty seconds it invokes the engine at most 1 + W times and the external
\* transcoder at most once, and it never goes back from SegmentSplit to safe
\* mode.
C36_FallbackTerminates ==
    /\ <>FallbackEnded
    /\ [](fb.engine_calls <= 1 + NumWindows(fb.audio.duration_ms))
    /\ [](fb.ffmpeg_calls <= 1)
    /\ [][InSegmentSplit => ~InSafeMode']_vars
    /\ [][FallbackEnded => FallbackEnded']_vars

\* A call that ended after the whole-file attempt and one engine call for each
\* of at least two windows, the transcoder run once.
C36_Witness ==
    /\ FallbackEnded
    /\ NumWindows(fb.audio.duration_ms) >= 2
    /\ fb.engine_calls = 1 + NumWindows(fb.audio.duration_ms)
    /\ fb.ffmpeg_calls = 1

\* ---------------------------------------------------- the transcript paths

\* filename_without_ext[:30], line 1464.
TruncateLen == 30

\* A run of TruncateLen - 1 characters that the stems below start with.
LongPrefix == [k \in 1..(TruncateLen - 1) |-> "x"]

\* The stems of the audio file names: short ones, and ones of TruncateLen
\* and of TruncateLen + 1 characters that differ in their last characters.
Stems ==
    {pre \o tail : pre \in {<<>>, LongPrefix},
                   tail \in {<<"a">>, <<"b">>, <<"a", "a">>, <<"a", "b">>}}

\* os.path.basename of call_data['audio_path'] with its URL parameters
\* removed: the stem, a dot and the extension, character by character.
FileNames == {stem \o <<".">> \o ext : stem \in Stems,
                                       ext \in {<<"m", "p", "3">>, <<"w", "a", "v">>}}

\* The records whose paths are built, all of one day: the call id, the user
\* type and the audio file name.
PathRecords == [id : Ids, user_type : {"agent", "customer"}, name : FileNames]

\* os.path.splitext(clean_filename)[0]: the name up to its last dot.
LastDot(name) ==
    LET dots == {k \in 1..Len(name) : name[k] = "."} IN
    IF dots = {} THEN Len(name) + 1
    ELSE CHOOSE k \in dots : \A j \in dots : j <= k

SplitExtStem(name) == SubSeq(name, 1, LastDot(name) - 1)

\* Line 1464: the first 30 characters of the stem.
Truncate(stem) ==
    IF Len(stem) > TruncateLen THEN SubSeq(stem, 1, TruncateLen) ELSE stem

\* Lines 1467-1475: text_dir ends in call_<id>, text_filename is
\* <user_type>_<truncated_name>.txt.
TextPath(rec) ==
    [dir  |-> rec.id,
     file |-> <<rec.user_type, "_">> \o Truncate(SplitExtStem(rec.name))
                \o <<".", "t", "x", "t">>]

\* Lines 1452-1475 run for two records.
BuildPaths ==
    /\ pt.state = "input"
    /\ pt' = [pt EXCEPT !.state = "built",
                        !.path_a = TextPath(pt.a),
                        !.path_b = TextPath(pt.b)]
    /\ UNCHANGED <<cb, mc, cv, fmt, fb, cl, calls, cfg, batchVars, future,
                   pc, result, fs, hist>>

NoPath == [dir |-> 0, file |-> <<>>]

\* Two call records of one batch.
InitPaths ==
    /\ pt \in [a : PathRecords, b : PathRecords, state : {"input"},
               path_a : {NoPath}, path_b : {NoPath}]
    /\ fb = None
    /\ cl = None
    /\ calls = <<>>
    /\ cfg = None
    /\ bpc = None
    /\ max_workers = 0
    /\ chunk_idx = 0
    /\ pool = 0
    /\ future = <<>>
    /\ results_dict = EmptyDict
    /\ all_results = <<>>
    /\ results = <<>>
    /\ exit_status = NotExited
    /\ cb = None
    /\ mc = None
    /\ cv = None
    /\ fmt = None
    /\ pc = <<>>
    /\ result = <<>>
    /\ fs = EmptyFs
    /\ hist = <<>>

NextPaths == BuildPaths

SpecPaths == InitPaths /\ [][NextPaths]_vars

\* C37: two call records that differ in call id, user type or audio file
\* name never get the same transcript path, so skip-on-exists hands a record
\* only the transcript of that same record.
C37_PathsDistinct ==
    (pt.state = "built" /\ pt.a # pt.b) => pt.path_a # pt.path_b

\* --------------------------------------- claims: chunked and direct paths

\* The (call_id, success) pairs of a result list.
Pairs(rs) == [k \in 1..Len(rs) |-> <<rs[k].call_id, rs[k].success>>]

\* The per-call outcomes in input order: what process_single_call returned
\* for each record, or the failure placeholder when it raised.
Outcomes ==
    [k \in 1..N |->
        <<calls[k].id, IF hist[k].escaped THEN FALSE ELSE result[k].success>>]

\* C38: for the same input list and the same per-call outcomes the chunked
\* path and the direct path return the same sequence of (call_id, success)
\* pairs, for every chunk size and worker count of at least 1: on either path
\* the returned pairs are the per-call outcomes in input order.
C38_ChunkedEqualsDirect ==
    Returned => Pairs(results) = Outcomes

\* A full list has returned through the chunked path, in more than one chunk,
\* with a success in one chunk and a failure in another.
C38_Witness ==
    /\ Returned /\ N = MaxCalls /\ UseChunks(cfg, N)
    /\ \E i, j \in 1..N :
          /\ ChunkNo(i) # ChunkNo(j)
          /\ results[i].success /\ ~results[j].success

====
